---------------------------- MODULE Spec2Model ----------------------------
(***************************************************************************)
(* Worker Mind orchestrator (AgewellEPM/ACAF): the decision cycle          *)
(* WorkerMind.run_cycle, manual-order intake, persistence of the last      *)
(* orders / last proposal documents, and the dashboard scheduler that      *)
(* drives the cycle from a worker thread.                                  *)
(*                                                                         *)
(* Threads.  The Tk main loop runs the dashboard handlers                  *)
(* (start_worker_mind, stop_worker_mind, submit_manual_orders) one at a    *)
(* time; every start_worker_mind creates a new worker thread running       *)
(* run_worker_mind_loop.  All threads share one WorkerMind object without  *)
(* any lock, so the statements of run_cycle interleave with the handlers   *)
(* and with the statements of other worker threads.  Each action below is  *)
(* one such statement group; pc[t] is the worker thread's position.        *)
(*                                                                         *)
(* Exceptions.  MemoryManager.get_recent_activities evaluates              *)
(* datetime.timedelta where datetime is the class imported by              *)
(* "from datetime import datetime" (memory_manager.py:6,100): the          *)
(* attribute lookup raises AttributeError on every call.  run_cycle calls  *)
(* it first thing in the reflection phase, outside any try block, so the   *)
(* exception leaves run_cycle and is caught by run_worker_mind_loop.       *)
(***************************************************************************)
EXTENDS Integers, Sequences, FiniteSets, TLC

(***************************************************************************)
(* Bounds of the model.                                                    *)
(***************************************************************************)
MaxSubmits == 2

MaxStarts == 2

\* Texts the operator types into the orders entry (never empty:
\* submit_manual_orders rejects an empty entry).
Orders == {"ping", "pong"}

Threads == 1..MaxStarts

(***************************************************************************)
(* Python values.                                                          *)
(***************************************************************************)
\* Python's None; str(None) is "None".
None == "<None>"

\* Truth value of an orders value in "if self.manual_orders:".
Truthy(v) == v # None /\ v # ""

\* Rendering of a value inside an f-string.
PyStr(v) == IF v = None THEN "None" ELSE v

\* The elements of a list.
Range(q) == {q[i] : i \in 1..Len(q)}

\* A goal dictionary {"description": ..., "status": ...}.
Goal(d, s) == [description |-> d, status |-> s]

\* A file that does not exist.
NoFile == [exists |-> FALSE]

\* The last-orders document {"orders": ..., "timestamp": ...}; sub is the
\* number of the submission that wrote it (history, not file content).
OrdersDoc(o, k) == [exists |-> TRUE, orders |-> o, sub |-> k]

\* The last-proposal document {"plan", "goals", "source"?, "timestamp"}.
ProposalDoc(p, g, src) == [exists |-> TRUE, plan |-> p, goals |-> g, source |-> src]

VARIABLES
    manual_orders,       \* WorkerMind.manual_orders
    manual_orders_sub,   \* history: number of the submission held there (0: none)
    current_plan,        \* WorkerMind.current_plan
    current_goals,       \* WorkerMind.current_goals
    daily_log,           \* WorkerMind.daily_log, the cycle's activity trace
    last_orders_file,    \* the last_orders.json document
    last_proposal_file,  \* the last_proposal.json document
    daily_logs,          \* MemoryManager.memory["daily_logs"]
    running,             \* WorkerMindDashboard.running, the run flag
    gui,                 \* position of the Tk thread inside a handler
    pc,                  \* position of each worker thread
    local,               \* each worker thread's locals and per-cycle history
    phases,              \* history: phases each thread's cycle has entered
    nsub,                \* history: calls of receive_manual_orders so far
    last_submitted,      \* history: text passed to the latest of those calls
    prev_submitted,      \* history: text passed to the call before that one
    cleared,             \* history: submissions cleared after being processed
    entry,               \* how the process was started: "main" or "direct"
    boot,                \* history: initial, the first instance is running;
                         \* sub, the submission the instance loaded; open,
                         \* no cycle has read and no call has overwritten it;
                         \* taken, the first read of the instance read it
    nstart               \* worker threads created so far

\* The collaborators of the orchestrator, exercised on their own below.
VARIABLES
    joy_level,              \* ObedienceLogic.joy_level, in units of 0.005
    obedience_level,        \* ObedienceLogic.obedience_level, in units of 0.005
    last_update_time,       \* ObedienceLogic.last_update_time: None, "set"
                            \* (an ISO time) or "bad" (any other text)
    now,                    \* the wall clock, in units of 100 seconds
    state_file,             \* the worker_mind_state.json document
    ol,                     \* the ObedienceLogic object: whether it exists,
                            \* how its last call ended, and history of it
    tool_performance_data,  \* MemoryManager.tool_performance_data
    tool_performance_file,  \* the tool_performance_data.json document
    te,                     \* the last TaskEngine.execute_task call: inputs,
                            \* result and history of what it did
    recorded,               \* history: record_tool_performance calls per key
    pl,                     \* the last propose_plan_and_goals call: inputs
                            \* and result
    ph,                     \* the Plan and Execute phases on their own:
                            \* position in the cycle and history
    rt,                     \* the WorkerMind of worker_mind.py run side by
                            \* side with the one above on the same inputs
    reflections,            \* MemoryManager.memory["reflections"]
    memory_file,            \* the worker_mind_memory.json document
    mm                      \* the last MemoryManager call: inputs and result

orchVars == <<manual_orders, manual_orders_sub, current_plan, current_goals,
              daily_log, last_orders_file, last_proposal_file, daily_logs,
              running, gui, pc, local, phases, nsub, last_submitted, prev_submitted,
              cleared, entry, boot, nstart>>

affectVars == <<joy_level, obedience_level, last_update_time, now, state_file, ol>>

taskVars == <<tool_performance_data, tool_performance_file, te, recorded>>

planVars == <<pl, ph, rt>>

memVars == <<reflections, memory_file, mm>>

unitVars == <<affectVars, taskVars, planVars, memVars>>

vars == <<orchVars, unitVars>>

wmVars == <<manual_orders, manual_orders_sub, current_plan, current_goals, daily_log>>

fileVars == <<last_orders_file, last_proposal_file>>

histVars == <<nsub, last_submitted, prev_submitted, cleared, entry, boot>>

(***************************************************************************)
(* ObedienceLogic (obedience_logic.py).  Levels are counted in units of    *)
(* 0.005 (1.0 is 200) and time in units of 100 seconds, so that every rate *)
(* of update_levels is a whole number of level units per time unit.        *)
(***************************************************************************)
\* Calls made on one ObedienceLogic object in one behaviour.
MaxAffectCalls == 2

\* Time units the clock advances in one behaviour.
MaxClock == 2

\* The upper limit 1.0 of _clamp_levels.
Scale == 200

\* The default level 0.5 of __init__ and of state.get(..., 0.5).
DefaultLevel == 100

\* update_levels: 0.0001 per second.
joy_decay_rate == 2

\* update_levels: 0.00005 per second.
obedience_decay_rate == 1

\* update_levels: the thresholds 0.7 and 0.3.
HighThreshold == 140

LowThreshold == 60

\* update_levels: obedience changes by 0.001 per second, joy by 0.0005.
ObedienceInfluenceRate == 20

JoyInfluenceRate == 10

\* A level kept as it is, without limits.
ClampNone(x) == x

\* max(0.0, min(1.0, x)).
Clamp(x) == IF x < 0 THEN 0 ELSE IF x > Scale THEN Scale ELSE x

\* Arguments of adjust_joy / adjust_obedience (-2.0, -0.05, 0.1, 2.0): the
\* two the orchestrator passes and two that overshoot the range.
Deltas == {-400, -10, 20, 400}

\* How far the clock at construction is past the timestamp of the state
\* document; the wall clock may also have moved back since it was written.
Elapsed == {-1, 0, 1}

\* Levels a state document may hold (-0.5, 0.305, 0.5, 0.8, 1.5);
\* json.load accepts any number.
LoadedLevels == {-100, 61, 100, 160, 300}

\* A state document: the keys present and the values of the level keys.
\* The timestamp is "set" (an ISO time) or "bad" (any other text).
StateDoc(keys, j, o, t) == [exists |-> TRUE, keys |-> keys, joy_level |-> j,
                            obedience_level |-> o, last_update_time |-> t]

NoStateFile == [exists |-> FALSE, keys |-> {}, joy_level |-> 0,
                obedience_level |-> 0, last_update_time |-> None]

\* The document main() writes when there is none.
MainPlaceholderState ==
    StateDoc({"joy_level", "obedience_level", "last_update_time"},
             DefaultLevel, DefaultLevel, "set")

StateFiles ==
    {NoStateFile}
      \cup {StateDoc({"joy_level", "obedience_level", "last_update_time"}, j, o, t) :
               j \in LoadedLevels, o \in LoadedLevels, t \in {"set", "bad"}}
      \cup {StateDoc({"joy_level", "obedience_level"}, j, o, None) :
               j \in LoadedLevels, o \in LoadedLevels}
      \cup {StateDoc({"last_update_time"}, 0, 0, "set")}

\* _load_state: state.get with its defaults.
LoadedJoy(f) ==
    IF f.exists /\ "joy_level" \in f.keys THEN f.joy_level ELSE DefaultLevel

LoadedObedience(f) ==
    IF f.exists /\ "obedience_level" \in f.keys THEN f.obedience_level ELSE DefaultLevel

LoadedTime(f) ==
    IF f.exists /\ "last_update_time" \in f.keys THEN f.last_update_time ELSE None

OutOfRange(x) == x < 0 \/ x > Scale

\* The ObedienceLogic object: status, whether it exists and how its last
\* call ended; at, the time last_update_time denotes when it is an ISO
\* time; and history: last, the last call; clamped, whether that call's
\* values were outside the range before _clamp_levels; saved_at, the time
\* of the latest _save_state call (at first the time in the document);
\* calls, the calls made.
Obj(status, last, clamped, at, saved_at, calls) ==
    [status |-> status, last |-> last, clamped |-> clamped, at |-> at,
     saved_at |-> saved_at, calls |-> calls]

\* ObedienceLogic.__init__: load, clamp, then
\* "self.last_update_time or datetime.now().isoformat()".  The module never
\* imports datetime, so when no timestamp was loaded the right operand
\* raises NameError and there is no object.
InitAffect ==
    /\ state_file \in StateFiles
    /\ now = 0
    /\ joy_level = Clamp(LoadedJoy(state_file))
    /\ obedience_level = Clamp(LoadedObedience(state_file))
    /\ last_update_time = LoadedTime(state_file)
    /\ \E e \in Elapsed :
          /\ LoadedTime(state_file) # "set" => e = 0
          /\ ol = Obj(IF LoadedTime(state_file) = None THEN "unbuilt" ELSE "ok",
                      "init",
                      OutOfRange(LoadedJoy(state_file))
                        \/ OutOfRange(LoadedObedience(state_file)),
                      now - e, now - e, 0)

\* The object the dashboard builds from the document main() wrote.
AffectIdle ==
    /\ state_file = MainPlaceholderState
    /\ now = 0
    /\ joy_level = DefaultLevel
    /\ obedience_level = DefaultLevel
    /\ last_update_time = "set"
    /\ ol = Obj("ok", "init", FALSE, 0, 0, 0)

\* The wall clock advances by one unit.
Tick ==
    /\ now < MaxClock
    /\ now' = now + 1
    /\ UNCHANGED <<joy_level, obedience_level, last_update_time, state_file, ol>>
    /\ UNCHANGED <<orchVars, taskVars, planVars, memVars>>

\* _save_state: the dictionary literal evaluates datetime.now() before the
\* try block; datetime is not defined in the module, so the call raises
\* NameError and the document is never written.
SaveStateRaises == TRUE

\* adjust_joy(delta).
AdjustJoy(delta) ==
    /\ ol.status # "unbuilt"
    /\ ol.calls < MaxAffectCalls
    /\ joy_level' = Clamp(joy_level + delta)
    /\ ol' = Obj(IF SaveStateRaises THEN "raised" ELSE "ok", "adjust_joy",
                 OutOfRange(joy_level + delta), ol.at, now, ol.calls + 1)
    /\ UNCHANGED <<obedience_level, last_update_time, state_file, now>>
    /\ UNCHANGED <<orchVars, taskVars, planVars, memVars>>

\* adjust_obedience(delta).
AdjustObedience(delta) ==
    /\ ol.status # "unbuilt"
    /\ ol.calls < MaxAffectCalls
    /\ obedience_level' = Clamp(obedience_level + delta)
    /\ ol' = Obj(IF SaveStateRaises THEN "raised" ELSE "ok", "adjust_obedience",
                 OutOfRange(obedience_level + delta), ol.at, now, ol.calls + 1)
    /\ UNCHANGED <<joy_level, last_update_time, state_file, now>>
    /\ UNCHANGED <<orchVars, taskVars, planVars, memVars>>

\* update_levels: time_diff_seconds, the clock minus last_update_time, or
\* zero when last_update_time is None.
TimeDiff == IF last_update_time = None THEN 0 ELSE now - ol.at

\* Joy left without decay.
DecayedJoyNone(e) == joy_level

\* Obedience decayed and not influenced by joy.
InfluencedObedienceNone(e) == obedience_level - obedience_decay_rate * e

\* update_levels, the values before _clamp_levels: decay, then the
\* influence of joy on obedience, then of obedience on joy.
DecayedJoy(e) == joy_level - joy_decay_rate * e

DecayedObedience(e) == obedience_level - obedience_decay_rate * e

InfluencedObedience(e) ==
    IF DecayedJoy(e) > HighThreshold
      THEN DecayedObedience(e) + ObedienceInfluenceRate * e
      ELSE IF DecayedJoy(e) < LowThreshold
             THEN DecayedObedience(e) - ObedienceInfluenceRate * e
             ELSE DecayedObedience(e)

InfluencedJoy(e) ==
    IF InfluencedObedience(e) > HighThreshold
      THEN DecayedJoy(e) + JoyInfluenceRate * e
      ELSE DecayedJoy(e)

\* update_levels.  datetime.fromisoformat raises ValueError on a timestamp
\* that is not an ISO time, before anything is changed; otherwise
\* last_update_time is set to the clock before _save_state is called.
UpdateLevels ==
    /\ ol.status # "unbuilt"
    /\ ol.calls < MaxAffectCalls
    /\ IF last_update_time = "bad"
         THEN /\ ol' = Obj("raised", "update_levels", FALSE, ol.at, ol.saved_at,
                           ol.calls + 1)
              /\ UNCHANGED <<joy_level, obedience_level, last_update_time>>
         ELSE /\ joy_level' = Clamp(InfluencedJoy(TimeDiff))
              /\ obedience_level' = Clamp(InfluencedObedience(TimeDiff))
              /\ last_update_time' = "set"
              /\ ol' = Obj(IF SaveStateRaises THEN "raised" ELSE "ok", "update_levels",
                           OutOfRange(InfluencedJoy(TimeDiff))
                             \/ OutOfRange(InfluencedObedience(TimeDiff)),
                           now, now, ol.calls + 1)
    /\ UNCHANGED <<state_file, now>>
    /\ UNCHANGED <<orchVars, taskVars, planVars, memVars>>

(***************************************************************************)
(* MemoryManager tool counters (memory_manager.py) and                     *)
(* TaskEngine.execute_task (task_engine.py, tool_api.py).                  *)
(***************************************************************************)
\* Calls of execute_task and record_tool_performance in one behaviour.
MaxCalls == 3

\* Names a decision can give for a tool (the ones the tests use); whether
\* the registry knows the name is an input of the call.
ToolNames == {"search_web", "write_file"}

\* The keys execute_task records its own outcomes under.
ParseKey == "LLM_decision_parse"

DirectKey == "LLM_direct_response"

UnclearKey == "LLM_decision_unclear"

Keys == ToolNames \cup {ParseKey, DirectKey, UnclearKey}

\* The fixed texts of _call_llm and execute_task.
NotConfiguredMessage == "Error: LLM client not configured."

ParseErrorMessage == "Failed to parse LLM's action decision."

UnclearMessage == "LLM could not determine a clear action."

DefaultContent == "No specific content provided."

\* A counter map extended with key k at value v: d[k] = v.
SetKey(f, k, v) == [x \in DOMAIN f \cup {k} |-> IF x = k THEN v ELSE f[x]]

\* d.get(k, 0).
Count(f, k) == IF k \in DOMAIN f THEN f[k] ELSE 0

NoCounters == [tool_usage |-> <<>>, tool_success |-> <<>>]

\* record_tool_performance that counts a success whatever the outcome.
RecordAlwaysSuccess(data, k, success) ==
    [tool_usage |-> SetKey(data.tool_usage, k, Count(data.tool_usage, k) + 1),
     tool_success |-> SetKey(data.tool_success, k, Count(data.tool_success, k) + 1)]

\* record_tool_performance with its two increments on opposite branches:
\* the usage counter moves only when the outcome is a failure.
RecordUsageOnFailure(data, k, success) ==
    [tool_usage |-> SetKey(data.tool_usage, k,
                           Count(data.tool_usage, k) + IF success THEN 0 ELSE 1),
     tool_success |-> SetKey(data.tool_success, k,
                             Count(data.tool_success, k) + IF success THEN 1 ELSE 0)]

\* record_tool_performance: a key seen for the first time gets both
\* counters at 0; usage += 1; success += 1 if success.
RecordToolPerformance(data, k, success) ==
    LET known == k \in DOMAIN data.tool_usage
        usage == IF known THEN data.tool_usage ELSE SetKey(data.tool_usage, k, 0)
        succ  == IF known THEN data.tool_success ELSE SetKey(data.tool_success, k, 0)
    IN  [tool_usage |-> [usage EXCEPT ![k] = @ + 1],
         tool_success |-> IF success THEN [succ EXCEPT ![k] = @ + 1] ELSE succ]

\* History of the record_tool_performance calls made.
NoneRecorded == [calls |-> 0, n |-> [k \in Keys |-> 0], ok |-> [k \in Keys |-> 0]]

Noted(r, k, success) ==
    [r EXCEPT !.n[k] = @ + 1, !.ok[k] = @ + IF success THEN 1 ELSE 0]

\* What json.loads makes of the action-decision response.  kind is
\* "not_json" when it raises JSONDecodeError, else the type of the value;
\* keys is what the "in" operator finds in the value (keys of a mapping,
\* elements of a list, substrings of a string); direct is the value under
\* "direct_response" (the text "true", the JSON literal true, the text
\* "false"), content the one under "response_content", tool the one under
\* "tool_name".
Payload(kind, keys, direct, content, tool) ==
    [kind |-> kind, keys |-> keys, direct |-> direct, content |-> content, tool |-> tool]

NotJson == Payload("not_json", {}, None, None, None)

NoDecision == Payload("none", {}, None, None, None)

DirectPayloads ==
    {Payload("mapping", {"direct_response", "response_content"}, f, "X", None) :
        f \in {"str:true", "bool:true", "str:false"}}
      \cup {Payload("mapping", {"direct_response"}, "str:true", None, None)}

\* Tool-call decisions: the name of a registered tool, or the name of a
\* reserved key, which the completion is free to return.
ToolPayloads ==
    {Payload("mapping", {"tool_name", "tool_args"}, None, None, t) :
        t \in ToolNames \cup {DirectKey}}

OtherPayloads ==
    {Payload("mapping", {"direct_response", "response_content", "tool_name", "tool_args"},
             "str:true", "X", "search_web"),
     Payload("mapping", {"tool_name"}, None, None, "search_web"),
     Payload("mapping", {}, None, None, None),
     Payload("number", {}, None, None, None),
     Payload("null", {}, None, None, None),
     Payload("list", {}, None, None, None),
     Payload("list", {"direct_response"}, None, None, None),
     Payload("list", {"tool_name", "tool_args"}, None, None, None),
     Payload("string", {"direct_response"}, None, None, None)}

Decisions == {NotJson} \cup DirectPayloads \cup ToolPayloads \cup OtherPayloads

\* What happens inside call_tool: the tool runs and returns, the name is
\* not registered, an argument of the schema is absent, the function
\* rejects the arguments (TypeError), or the function raises.
ToolOutcomes == {"ok", "not_found", "missing_arg", "type_error", "tool_raises"}

ToolOutput == "tool output"

\* call_tool(tool_name, **kwargs): the value returned or the message of
\* the exception raised.
CallTool(name, o) ==
    CASE o = "ok" -> [raised |-> FALSE, value |-> ToolOutput]
      [] o = "not_found" ->
           [raised |-> TRUE, value |-> "Tool '" \o name \o "' not found."]
      [] o = "missing_arg" ->
           [raised |-> TRUE,
            value |-> "Missing required argument 'query' for tool '" \o name \o "'."]
      [] o = "type_error" ->
           [raised |-> TRUE, value |-> "Invalid arguments for tool '" \o name \o "'"]
      [] OTHER ->
           [raised |-> TRUE,
            value |-> "An error occurred during tool '" \o name \o "' execution"]

\* How an execute_task call ends: status "returned" or "raised"; branch;
\* the pair returned; the key recorded and the number of
\* record_tool_performance and add_log_entry calls made; the name passed
\* to call_tool; the exception that escaped.
Result(status, branch, success, output, key, records, logs, tool, error) ==
    [status |-> status, branch |-> branch, success |-> success, output |-> output,
     key |-> key, records |-> records, log_entries |-> logs, tool_invoked |-> tool,
     error |-> error]

Escapes(e) == Result("raised", None, FALSE, None, None, 0, 0, None, e)

\* The branch for a parse error that counts the outcome as a success.
ParseBranchCounted ==
    Result("returned", "parse", TRUE, ParseErrorMessage, ParseKey, 1, 0, None, None)

\* except json.JSONDecodeError.
ParseBranch ==
    Result("returned", "parse", FALSE, ParseErrorMessage, ParseKey, 1, 0, None, None)

\* The direct-response branch returning the default text whatever the
\* payload holds.
DirectBranchDefault(d) ==
    Result("returned", "direct", TRUE, DefaultContent, DirectKey, 1, 1, None, None)

\* "direct_response" in llm_decision and its value == "true".
DirectBranch(d) ==
    Result("returned", "direct", TRUE,
           IF "response_content" \in d.keys THEN d.content ELSE DefaultContent,
           DirectKey, 1, 1, None, None)

\* The tool branch without its try/except: a failure of call_tool escapes.
ToolBranchUncaught(d, o) ==
    IF CallTool(d.tool, o).raised
      THEN Escapes("ValueError")
      ELSE Result("returned", "tool", TRUE, CallTool(d.tool, o).value,
                  d.tool, 1, 1, d.tool, None)

\* "tool_name" and "tool_args" in llm_decision: call_tool under
\* try/except Exception, then record under the tool's name.
ToolBranch(d, o) ==
    Result("returned", "tool", ~CallTool(d.tool, o).raised,
           IF CallTool(d.tool, o).raised
             THEN "Error calling tool '" \o d.tool \o "': " \o CallTool(d.tool, o).value
             ELSE CallTool(d.tool, o).value,
           d.tool, 1, 1, d.tool, None)

\* The final else.
UnclearBranch ==
    Result("returned", "unclear", FALSE, UnclearMessage, UnclearKey, 1, 0, None, None)

\* The decision has the keys of a tool call and not the direct flag "true".
TakesToolBranch(d) ==
    /\ d.kind = "mapping"
    /\ ~("direct_response" \in d.keys /\ d.direct = "str:true")
    /\ {"tool_name", "tool_args"} \subseteq d.keys

\* execute_task from json.loads on (lines 120-163).  A number or null is
\* not iterable, so the first "in" raises TypeError; a list or string that
\* contains "direct_response" has no .get (AttributeError) and one that
\* contains both tool keys cannot be indexed by a string (TypeError).
Decide(d, o) ==
    IF d.kind = "not_json" THEN ParseBranch
    ELSE IF d.kind \in {"number", "null"} THEN Escapes("TypeError")
    ELSE IF "direct_response" \in d.keys /\ d.kind # "mapping" THEN Escapes("AttributeError")
    ELSE IF "direct_response" \in d.keys /\ d.direct = "str:true" THEN DirectBranch(d)
    ELSE IF {"tool_name", "tool_args"} \subseteq d.keys
           THEN IF d.kind # "mapping" THEN Escapes("TypeError") ELSE ToolBranch(d, o)
    ELSE UnclearBranch

\* The two _call_llm steps execute_task goes through.
AllSteps == <<"kb_suggestion", "action_decision">>

\* _call_llm without a client returns the not-configured text, which is
\* not JSON.
RawDecision(llm, d) == IF llm THEN d ELSE NotJson

\* add_log_entry builds a record and prints it; nothing is stored.
AddLogEntry(logs, text) == logs

\* No execute_task call yet.
NoCall == [n |-> 0, llm |-> TRUE, decision |-> NoDecision, outcome |-> None,
           steps |-> <<>>, status |-> "idle", branch |-> None, success |-> FALSE,
           output |-> None, key |-> None, records |-> 0, log_entries |-> 0,
           tool_invoked |-> None, error |-> None]

CallRecord(n, llm, d, o, r) ==
    [n |-> n, llm |-> llm, decision |-> d, outcome |-> o, steps |-> AllSteps,
     status |-> r.status, branch |-> r.branch, success |-> r.success,
     output |-> r.output, key |-> r.key, records |-> r.records,
     log_entries |-> r.log_entries, tool_invoked |-> r.tool_invoked, error |-> r.error]

InitTask ==
    /\ tool_performance_data = NoCounters
    /\ tool_performance_file = NoCounters
    /\ te = NoCall
    /\ recorded = NoneRecorded

TaskIdle == InitTask

\* execute_task(task_description) with the client present or not, the
\* action-decision response d and the behaviour o of the tool.
ExecuteTask(llm, d, o) ==
    /\ recorded.calls < MaxCalls
    /\ ~llm => d = NotJson
    /\ o # None <=> TakesToolBranch(RawDecision(llm, d))
    /\ (o # None /\ d.tool \notin ToolNames) => o = "not_found"
    /\ te' = CallRecord(recorded.calls + 1, llm, d, o, Decide(RawDecision(llm, d), o))
    /\ tool_performance_data' =
          IF te'.records = 1
            THEN RecordToolPerformance(tool_performance_data, te'.key, te'.success)
            ELSE tool_performance_data
    /\ tool_performance_file' = tool_performance_data'
    /\ recorded' = [(IF te'.records = 1 THEN Noted(recorded, te'.key, te'.success)
                                         ELSE recorded)
                      EXCEPT !.calls = @ + 1]
    /\ daily_logs' = IF te'.log_entries = 1 THEN AddLogEntry(daily_logs, te'.output)
                                             ELSE daily_logs
    /\ UNCHANGED <<manual_orders, manual_orders_sub, current_plan, current_goals,
                   daily_log, last_orders_file, last_proposal_file,
                   running, gui, pc, local, phases, nsub, last_submitted, prev_submitted,
                   cleared, entry, boot, nstart>>
    /\ UNCHANGED <<affectVars, planVars, memVars>>

\* MemoryManager.record_tool_performance(tool_name, success) called on its
\* own, and _save_tool_performance_data.
RecordCall(k, success) ==
    /\ recorded.calls < MaxCalls
    /\ tool_performance_data' = RecordToolPerformance(tool_performance_data, k, success)
    /\ tool_performance_file' = tool_performance_data'
    /\ recorded' = [Noted(recorded, k, success) EXCEPT !.calls = @ + 1]
    /\ UNCHANGED <<te, orchVars, affectVars, planVars, memVars>>

(***************************************************************************)
(* MemoryManager: the memory store, reflect, log_daily_activity and        *)
(* get_recent_activities (memory_manager.py).  Timestamps are counted in   *)
(* days.                                                                   *)
(***************************************************************************)
\* Calls on one MemoryManager in one behaviour.
MaxMemCalls == 3

\* The current day; the records of the store carry days 0..MaxDay.
MaxDay == 2

\* Windows get_recent_activities is called with.
Windows == {1, 7}

\* The fixed texts of reflect.
BasicReflection == "Basic reflection: No LLM available to analyze performance."

ApiErrorReflection == "Error during reflection: OpenAI API call failed - "

UnexpectedErrorReflection == "Error during reflection: An unexpected error occurred - "

\* What the completion call of reflect does: it returns a text, returns a
\* message without content, returns no choice at all (IndexError), raises
\* openai.APIError, or raises something else.
ReflectOutcomes == {"text", "none_content", "no_choices", "api_error", "other_error"}

ReflectionText == "Tools worked well."

\* A record of memory["daily_logs"] and one of memory["reflections"].
DailyRecord(t, activities) == [timestamp |-> t, activities |-> activities]

ReflectionRecord(t, text) == [timestamp |-> t, reflection |-> text]

\* The memory document: absent, not JSON (a write cut short), or holding
\* the two lists.
NoMemoryFile == [state |-> "absent", daily_logs |-> <<>>, reflections |-> <<>>]

TruncatedMemory == [state |-> "truncated", daily_logs |-> <<>>, reflections |-> <<>>]

MemoryDoc(logs, refl) == [state |-> "json", daily_logs |-> logs, reflections |-> refl]

\* Documents an earlier run can have left; the records of a store are in
\* the order they were appended, so their days do not decrease.
MemoryFiles ==
    {NoMemoryFile, TruncatedMemory,
     MemoryDoc(<<>>, <<>>),
     MemoryDoc(<<DailyRecord(0, <<"old">>), DailyRecord(MaxDay, <<"new">>)>>, <<>>),
     MemoryDoc(<<DailyRecord(MaxDay - 1, <<"recent">>)>>,
               <<ReflectionRecord(MaxDay - 1, ReflectionText)>>)}

\* _load_memory: json.load of the document, or the empty store when the
\* file is absent or cannot be decoded.
LoadedLogs(f) == IF f.state = "json" THEN f.daily_logs ELSE <<>>

LoadedReflections(f) == IF f.state = "json" THEN f.reflections ELSE <<>>

\* How a write goes: json.dump completes, open() fails and the file is
\* left as it was, or json.dump fails after open() has truncated the file.
WriteOutcomes == {"ok", "open_fails", "dump_fails"}

\* _save_memory: the whole store is dumped; any exception is caught.
SaveMemory(f, logs, refl, w) ==
    CASE w = "ok" -> MemoryDoc(logs, refl)
      [] w = "open_fails" -> f
      [] OTHER -> TruncatedMemory

\* The records get_recent_activities would keep: those not older than the
\* cutoff, in stored order.
RECURSIVE RecentFrom(_, _, _)
RecentFrom(logs, i, cutoff) ==
    IF i > Len(logs) THEN <<>>
    ELSE IF logs[i].timestamp >= cutoff
           THEN <<logs[i]>> \o RecentFrom(logs, i + 1, cutoff)
    ELSE RecentFrom(logs, i + 1, cutoff)

\* What a reflect call gives back: the text returned, the reflections list
\* afterwards and whether _save_memory was called.
ReflectResult(text, refl, saved) == [text |-> text, reflections |-> refl, saved |-> saved]

\* "if not self.llm_client" that also stores the basic text.
NoClientBranchAppends(refl) ==
    ReflectResult(BasicReflection, Append(refl, ReflectionRecord(MaxDay, BasicReflection)),
                  FALSE)

\* "if not self.llm_client": the basic text, nothing stored.
NoClientBranch(refl) == ReflectResult(BasicReflection, refl, FALSE)

\* reflect(reflection_prompt).
ReflectCall(llm, outcome, refl) ==
    IF ~llm THEN NoClientBranch(refl)
    ELSE IF outcome = "text"
           THEN ReflectResult(ReflectionText,
                              Append(refl, ReflectionRecord(MaxDay, ReflectionText)), TRUE)
    ELSE IF outcome = "none_content"
           THEN ReflectResult(None, Append(refl, ReflectionRecord(MaxDay, None)), TRUE)
    ELSE IF outcome = "api_error" THEN ReflectResult(ApiErrorReflection, refl, FALSE)
    ELSE ReflectResult(UnexpectedErrorReflection, refl, FALSE)

\* No MemoryManager call yet.
NoMemCall == [n |-> 0, op |-> None, status |-> "idle", llm |-> TRUE, outcome |-> None,
              text |-> None, days |-> 0, result |-> <<>>, write |-> None]

MemCall(n, op, status, llm, outcome, text, days, result, w) ==
    [n |-> n, op |-> op, status |-> status, llm |-> llm, outcome |-> outcome,
     text |-> text, days |-> days, result |-> result, write |-> w]

\* A MemoryManager built on the document: _load_memory.
InitMemory ==
    /\ memory_file \in MemoryFiles
    /\ reflections = LoadedReflections(memory_file)
    /\ mm = NoMemCall

MemoryIdle ==
    /\ memory_file = NoMemoryFile
    /\ reflections = <<>>
    /\ mm = NoMemCall

\* The last two statements of _reflect_on_past_performance, reached once
\* get_recent_activities has returned: reflect is called and its result is
\* appended to the activity trace.  llm: the client is there; outcome: what
\* the completion call does; w: how the write of _save_memory goes.
ReflectOnPastPerformance(llm, outcome, w) ==
    /\ mm.n < MaxMemCalls
    /\ llm <=> outcome # None
    /\ w # None <=> ReflectCall(llm, outcome, reflections).saved
    /\ LET res == ReflectCall(llm, outcome, reflections)
       IN /\ reflections' = res.reflections
          /\ memory_file' = IF res.saved
                              THEN SaveMemory(memory_file, daily_logs, res.reflections, w)
                              ELSE memory_file
          /\ daily_log' = Append(daily_log, "Reflection completed: " \o PyStr(res.text))
          /\ mm' = MemCall(mm.n + 1, "reflect", "returned", llm, outcome, res.text, 0, <<>>, w)
    /\ UNCHANGED <<manual_orders, manual_orders_sub, current_plan, current_goals,
                   last_orders_file, last_proposal_file, daily_logs, running, gui, pc,
                   local, phases, nsub, last_submitted, prev_submitted, cleared, entry,
                   boot, nstart>>
    /\ UNCHANGED <<affectVars, taskVars, planVars>>

\* log_daily_activity(self.daily_log): one record with the trace is
\* appended and the store saved.
LogDailyActivity(w) ==
    /\ mm.n < MaxMemCalls
    /\ daily_logs' = Append(daily_logs, DailyRecord(MaxDay, daily_log))
    /\ memory_file' = SaveMemory(memory_file, daily_logs', reflections, w)
    /\ mm' = MemCall(mm.n + 1, "log_daily_activity", "returned", TRUE, None, None, 0, <<>>, w)
    /\ UNCHANGED <<manual_orders, manual_orders_sub, current_plan, current_goals,
                   daily_log, last_orders_file, last_proposal_file, running, gui, pc,
                   local, phases, nsub, last_submitted, prev_submitted, cleared, entry,
                   boot, nstart>>
    /\ UNCHANGED <<reflections, affectVars, taskVars, planVars>>

\* MemoryManager.get_recent_activities: TRUE when the call raises.  The
\* expression datetime.now() - datetime.timedelta(days=days) looks
\* timedelta up on the datetime class and raises AttributeError before any
\* record is examined, for every argument and every store content.
GetRecentActivitiesRaises(days) == TRUE

\* get_recent_activities(days) called on the store.
GetRecentActivities(days) ==
    /\ mm.n < MaxMemCalls
    /\ mm' = IF GetRecentActivitiesRaises(days)
               THEN MemCall(mm.n + 1, "get_recent_activities", "raised", TRUE, None, None,
                            days, <<>>, None)
               ELSE MemCall(mm.n + 1, "get_recent_activities", "returned", TRUE, None, None,
                            days, RecentFrom(daily_logs, 1, MaxDay - days), None)
    /\ UNCHANGED <<orchVars, reflections, memory_file, affectVars, taskVars, planVars>>

\* A new MemoryManager is built on the document.
ReloadMemory ==
    /\ mm.n < MaxMemCalls
    /\ daily_logs' = LoadedLogs(memory_file)
    /\ reflections' = LoadedReflections(memory_file)
    /\ mm' = MemCall(mm.n + 1, "load", "returned", TRUE, None, None, 0, <<>>, None)
    /\ UNCHANGED <<manual_orders, manual_orders_sub, current_plan, current_goals,
                   daily_log, last_orders_file, last_proposal_file, running, gui, pc,
                   local, phases, nsub, last_submitted, prev_submitted, cleared, entry,
                   boot, nstart>>
    /\ UNCHANGED <<memory_file, affectVars, taskVars, planVars>>

(***************************************************************************)
(* Construction: WorkerMind.__init__ and _load_last_state.                 *)
(***************************************************************************)
\* main() of the dashboard writes placeholder documents for missing files
\* before the components are constructed.
\* open(path, 'w') truncates the file before json.dump writes it.  A file
\* left truncated makes json.load raise in _load_last_state, which is caught
\* and leaves the attributes at their constructor values.
TruncatedOrders == OrdersDoc(None, 0)
TruncatedProposal == ProposalDoc(None, <<>>, None)

MainPlaceholderOrders == OrdersDoc("", 0)

MainPlaceholderProposal == ProposalDoc("No plan yet.", <<>>, None)

\* self.current_plan = data.get('plan') when the proposal file exists.
LoadedPlan(f) == IF f.exists THEN f.plan ELSE None

\* self.current_goals = data.get('goals', []).
LoadedGoals(f) == IF f.exists THEN f.goals ELSE <<>>

\* self.manual_orders = data.get('orders') when the orders file exists.
LoadedOrders(f) == IF f.exists THEN f.orders ELSE None

\* History: the submission that wrote the loaded orders document.
LoadedOrdersSub(f) == IF f.exists THEN f.sub ELSE 0

\* Locals of a worker thread outside _process_manual_orders, with the
\* per-cycle history: sub_at_start, the submission pending (its receive call
\* returned) when the cycle began; sub, the submission the cycle read;
\* arrived, a submission was assigned after the cycle's own
\* "if self.manual_orders" test and before its read; late, the cycle read
\* such a submission; again, it read a submission that an earlier cycle had
\* processed and cleared; stale, it read a submission that was not the
\* latest one.
NoLocal == [orders_to_process |-> None, sub_at_start |-> 0, sub |-> 0,
            arrived |-> FALSE, late |-> FALSE, again |-> FALSE, stale |-> FALSE]

(***************************************************************************)
(* AutonomousPlanner.propose_plan_and_goals (autonomous_planner.py).       *)
(***************************************************************************)
\* Entries in the "goals" array of a planning response.
MaxGoals == 2

NoLlmPlan == "No LLM available for planning."

DefaultPlan == "No plan proposed."

JsonFailurePlan == "Failed to generate a valid plan (JSON decode error)."

InternalFailurePlan == "Failed to generate a valid plan (internal error)."

\* JSON values under "plan": a text, the empty text, null, the numbers 0
\* and 42.
PlanValues == {"Improve efficiency.", "", None, "<0>", "<42>"}

\* Truth value of a plan in "if proposed_plan and ..." and
\* "if not self.current_plan".
PlanTruthy(v) == v \notin {"", None, "<0>"}

\* An entry of the "goals" array: a JSON object with the keys it has, or a
\* JSON text.
Entry(kind, keys, d, st) == [kind |-> kind, keys |-> keys, description |-> d, status |-> st]

Entries ==
    {Entry("dict", {"description", "status"}, d, st) :
        d \in {"g1", "g2"}, st \in {"pending", "achieved"}}
      \cup {Entry("dict", {"description"}, "g1", None),
            Entry("dict", {"status"}, None, "pending"),
            Entry("dict", {}, None, None),
            Entry("text", {}, None, None)}

EntryLists == UNION {[1..n -> Entries] : n \in 0..MaxGoals}

\* The JSON value under "goals": an array, or a value that is not one.
GoalsValue(kind, items) == [kind |-> kind, items |-> items]

GoalsValues == {GoalsValue("list", q) : q \in EntryLists} \cup {GoalsValue("other", <<>>)}

\* What _call_llm returns: text that is not JSON, a JSON value that is not
\* an object (array, number, string, null), no text at all (the message
\* content is None), or a JSON object with the keys it has.
Response(kind, keys, plan, goals) ==
    [kind |-> kind, keys |-> keys, plan |-> plan, goals |-> goals]

NoResponse == Response("absent", {}, None, GoalsValue("other", <<>>))

Unparseable ==
    {Response(k, {}, None, GoalsValue("other", <<>>)) :
        k \in {"not_json", "array", "number", "string", "null", "none"}}

ObjectResponses ==
    {Response("object", {"plan", "goals"}, v, g) : v \in PlanValues, g \in GoalsValues}
      \cup {Response("object", {"plan"}, v, GoalsValue("other", <<>>)) : v \in PlanValues}
      \cup {Response("object", {"goals"}, None, g) : g \in GoalsValues}
      \cup {Response("object", {}, None, GoalsValue("other", <<>>))}

Responses == Unparseable \cup ObjectResponses

\* How a propose_plan_and_goals call ends and the pair it returns.
Proposal(status, plan, goals) == [status |-> status, plan |-> plan, goals |-> goals]

\* except json.JSONDecodeError.
JsonDecodeBranch == Proposal("returned", JsonFailurePlan, <<>>)

\* A failure other than JSONDecodeError left to its caller.
InternalErrorEscapes == Proposal("raised", None, <<>>)

\* except Exception: .get on a value that is not a dict raises
\* AttributeError, json.loads(None) raises TypeError.
InternalErrorBranch == Proposal("returned", InternalFailurePlan, <<>>)

\* A check of the description alone.
IsValidGoalByDescription(e) == e.kind = "dict" /\ "description" \in e.keys

\* isinstance(goal, dict) and "description" in goal and "status" in goal.
IsValidGoal(e) == e.kind = "dict" /\ "description" \in e.keys /\ "status" \in e.keys

\* The loop over goals appending the valid entries to valid_goals.
RECURSIVE ValidGoalsFrom(_, _, _)
ValidGoalsFrom(items, i, valid_goals) ==
    IF i > Len(items) THEN valid_goals
    ELSE ValidGoalsFrom(items, i + 1,
                        IF IsValidGoal(items[i])
                          THEN Append(valid_goals, Goal(items[i].description, items[i].status))
                          ELSE valid_goals)

\* plan_data.get("goals", []) and its validation.
ProposedGoals(r) ==
    IF "goals" \notin r.keys THEN <<>>
    ELSE IF r.goals.kind # "list" THEN <<>>
    ELSE ValidGoalsFrom(r.goals.items, 1, <<>>)

\* plan_data.get("plan", "No plan proposed.").
ProposedPlan(r) == IF "plan" \in r.keys THEN r.plan ELSE DefaultPlan

\* propose_plan_and_goals with the client present or not and the response
\* r of _call_llm.
ProposePlanAndGoals(llm, r) ==
    IF ~llm THEN Proposal("returned", NoLlmPlan, <<>>)
    ELSE IF r.kind = "not_json" THEN JsonDecodeBranch
    ELSE IF r.kind # "object" THEN InternalErrorBranch
    ELSE Proposal("returned", ProposedPlan(r), ProposedGoals(r))

NoProposal == [status |-> "none", llm |-> TRUE, response |-> NoResponse,
               plan |-> None, goals |-> <<>>]

ProposalRecord(llm, r, res) ==
    [status |-> res.status, llm |-> llm, response |-> r, plan |-> res.plan,
     goals |-> res.goals]

\* A propose_plan_and_goals call made on its own, the first on the planner.
Propose(llm, r) ==
    /\ pl.status = "none"
    /\ ~llm <=> r = NoResponse
    /\ pl' = ProposalRecord(llm, r, ProposePlanAndGoals(llm, r))
    /\ UNCHANGED <<ph, rt, orchVars, affectVars, taskVars, memVars>>

(***************************************************************************)
(* The Plan and Execute phases of run_cycle on their own: what they do     *)
(* once the reflection phase has returned.                                 *)
(***************************************************************************)
\* Cycles begun and restarts of the process in one behaviour.
MaxCycles == 2

MaxRestarts == 1

IdlePlan == "Idle or previous plan"

\* The attributes class AppConfig defines (config.py).
AppConfigNames ==
    {"CYCLE_DURATION_SECONDS", "DEFAULT_LLM_MODEL_PLANNING",
     "DEFAULT_LLM_MODEL_TASK_EXECUTION", "DEFAULT_LLM_MODEL_REFLECTION",
     "LLM_TEMPERATURE", "LLM_MAX_TOKENS_PLANNING", "LLM_MAX_TOKENS_TASK_DECISION",
     "LLM_MAX_TOKENS_REFLECTION", "JOY_DECAY_RATE_PER_SEC",
     "OBEDIENCE_DECAY_RATE_PER_SEC", "JOY_BOOST_OBEDIENCE_THRESHOLD",
     "JOY_REDUCE_OBEDIENCE_THRESHOLD", "OBEDIENCE_BOOST_JOY_THRESHOLD",
     "INFLUENCE_RATE_PER_SEC", "MEMORY_FILE", "TOOL_PERFORMANCE_FILE",
     "LAST_PROPOSAL_FILE", "LAST_ORDERS_FILE", "WORKER_MIND_STATE_FILE",
     "AAC_THEORY_PACK_FILE", "LOG_FILE_PATH", "LOG_LEVEL", "GUI_UPDATE_INTERVAL_MS"}

\* The attribute _execute_plan reads for the argument of adjust_joy.
JoyAdjustmentName(success) ==
    IF success THEN "JOY_BOOST_ON_SUCCESS" ELSE "JOY_REDUCE_ON_FAILURE"

\* Proposal documents an earlier run can have left: the placeholder of
\* main(), the one written for a manual order, one written by the Plan
\* phase.
PhaseFiles ==
    {MainPlaceholderProposal,
     ProposalDoc("Fulfill manual order: ping", <<Goal("ping", "pending")>>, "manual_orders"),
     ProposalDoc("Improve efficiency.", <<Goal("g1", "achieved"), Goal("g2", "pending")>>, None)}

\* Planning responses the phases are run with.
PhaseResponses ==
    {Response("not_json", {}, None, GoalsValue("other", <<>>)),
     Response("array", {}, None, GoalsValue("other", <<>>)),
     Response("object", {"plan", "goals"}, "Improve efficiency.",
              GoalsValue("list", <<Entry("dict", {"description", "status"}, "g1", "pending"),
                                   Entry("dict", {"description", "status"}, "g2", "pending")>>)),
     Response("object", {"plan", "goals"}, "Improve efficiency.",
              GoalsValue("list", <<Entry("dict", {"description", "status"}, "g1", "achieved"),
                                   Entry("dict", {"description", "status"}, "g2", "pending")>>)),
     Response("object", {"plan", "goals"}, "Improve efficiency.",
              GoalsValue("list", <<Entry("dict", {"description"}, "g1", None),
                                   Entry("dict", {"description", "status"}, "g2", "pending")>>)),
     Response("object", {"plan", "goals"}, "",
              GoalsValue("list", <<Entry("dict", {"description", "status"}, "g1", "pending")>>)),
     Response("object", {"plan", "goals"}, "<42>",
              GoalsValue("list", <<Entry("dict", {"description", "status"}, "g1", "pending")>>)),
     Response("object", {"plan", "goals"}, "Improve efficiency.",
              GoalsValue("list", <<Entry("dict", {"description", "status"}, "g1", "in_progress")>>)),
     Response("object", {"plan", "goals"}, "Improve efficiency.", GoalsValue("list", <<>>)),
     Response("object", {"plan", "goals"}, "Improve efficiency.", GoalsValue("other", <<>>)),
     Response("object", {"goals"}, None,
              GoalsValue("list", <<Entry("dict", {"description", "status"}, "g2", "pending")>>))}

\* What an execute_task call of the Execute phase meets: the client, the
\* action decision and the behaviour of the tool.
TaskInput(llm, d, o) == [llm |-> llm, decision |-> d, outcome |-> o]

TaskInputs ==
    {TaskInput(TRUE, Payload("mapping", {"direct_response", "response_content"},
                             "str:true", "X", None), None),
     TaskInput(TRUE, Payload("mapping", {"tool_name", "tool_args"}, None, None, "search_web"),
               "ok"),
     TaskInput(TRUE, Payload("mapping", {"tool_name", "tool_args"}, None, None, "search_web"),
               "not_found"),
     TaskInput(FALSE, NotJson, None),
     TaskInput(TRUE, Payload("number", {}, None, None, None), None)}

\* History of the phases.  pos: where the cycle is; gen: the number of the
\* goal list held in current_goals and file_gen that of the list in the
\* proposal document (lists made so far are counted in made); resolved:
\* the goals execute_task has returned for, by list, position and the
\* status given; pending and attempts: the positions pending when the
\* Execute phase began and those execute_task was called for, in order;
\* adjustments: adjust_joy calls made by the phase; again: execute_task
\* was called for a goal already resolved; error: what left the phase.
NoPhase == [pos |-> "idle", cycles |-> 0, restarts |-> 0, gen |-> 0, file_gen |-> 0,
            made |-> 0, resolved |-> {}, pending |-> <<>>, attempts |-> <<>>,
            adjustments |-> 0, again |-> FALSE, error |-> None]

\* The WorkerMind of worker_mind.py: its plan, goals and activity trace,
\* its last_proposal.json, the joy level of its ObedienceLogic, and
\* history: the adjust_joy calls of its Execute phase and what left it.
RootWorkerMind(plan, goals, log, file, joy, adjustments, error) ==
    [current_plan |-> plan, current_goals |-> goals, daily_log |-> log,
     last_proposal_file |-> file, joy_level |-> joy, adjustments |-> adjustments,
     error |-> error]

\* One built on the proposal document f: __init__ and _load_last_state.
RootLoaded(f) == RootWorkerMind(LoadedPlan(f), LoadedGoals(f), <<>>, f, joy_level, 0, None)

PlanIdle == pl = NoProposal /\ ph = NoPhase /\ rt = RootLoaded(last_proposal_file)

\* run_cycle up to the Plan phase with no manual order pending, the
\* reflection phase having returned.
BeginCycle ==
    /\ ph.pos \in {"idle", "executed", "raised"}
    /\ ph.cycles < MaxCycles
    /\ daily_log' = <<"Reflection completed">>
    /\ ph' = [ph EXCEPT !.pos = "reflected", !.cycles = @ + 1, !.pending = <<>>,
                        !.attempts = <<>>, !.adjustments = 0, !.error = None]
    /\ rt' = [rt EXCEPT !.daily_log = <<"Reflection completed">>, !.adjustments = 0,
                        !.error = None]
    /\ UNCHANGED <<manual_orders, manual_orders_sub, current_plan, current_goals,
                   fileVars, daily_logs, running, gui, pc, local, phases, histVars, nstart>>
    /\ UNCHANGED <<pl, affectVars, taskVars, memVars>>

\* The else branch keeping what was current.
AdoptOrKeep(plan, goals) ==
    IF PlanTruthy(plan) /\ goals # <<>>
      THEN [adopted |-> TRUE, plan |-> plan, goals |-> goals]
      ELSE [adopted |-> FALSE, plan |-> current_plan, goals |-> current_goals]

\* "if proposed_plan and proposed_goals": both become current, else the
\* idle marker and the empty list.
AdoptOrIdle(plan, goals) ==
    IF PlanTruthy(plan) /\ goals # <<>>
      THEN [adopted |-> TRUE, plan |-> plan, goals |-> goals]
      ELSE [adopted |-> FALSE, plan |-> IdlePlan, goals |-> <<>>]

\* _plan_next_actions with the planner's client present or not and the
\* response r of its _call_llm.
PlanNextActions(llm, r) ==
    /\ ph.pos = "reflected"
    /\ ~llm <=> r = NoResponse
    /\ pl' = ProposalRecord(llm, r, ProposePlanAndGoals(llm, r))
    /\ LET new == AdoptOrIdle(pl'.plan, pl'.goals)
       IN /\ current_plan' = new.plan
          /\ current_goals' = new.goals
          /\ daily_log' = IF new.adopted
                            THEN daily_log \o <<"New plan proposed: " \o new.plan,
                                                "New goals proposed">>
                            ELSE Append(daily_log,
                                        "Autonomous Planner failed to propose a new plan.")
          /\ last_proposal_file' = IF new.adopted
                                     THEN ProposalDoc(new.plan, new.goals, None)
                                     ELSE last_proposal_file
          /\ ph' = [ph EXCEPT !.pos = "planned", !.made = @ + 1, !.gen = ph.made + 1,
                              !.file_gen = IF new.adopted THEN ph.made + 1 ELSE @]
          /\ rt' = [rt EXCEPT
                      !.current_plan = new.plan,
                      !.current_goals = new.goals,
                      !.daily_log = IF new.adopted
                                      THEN @ \o <<"New plan proposed: " \o new.plan,
                                                  "New goals proposed">>
                                      ELSE Append(@, "Autonomous Planner failed to propose a new plan."),
                      !.last_proposal_file = IF new.adopted
                                               THEN ProposalDoc(new.plan, new.goals, None)
                                               ELSE @]
    /\ UNCHANGED <<manual_orders, manual_orders_sub, last_orders_file, daily_logs,
                   running, gui, pc, local, phases, histVars, nstart>>
    /\ UNCHANGED <<affectVars, taskVars, memVars>>

\* The positions of the goals whose status is "pending", in list order.
RECURSIVE PendingFrom(_, _)
PendingFrom(goals, i) ==
    IF i > Len(goals) THEN <<>>
    ELSE IF goals[i].status = "pending" THEN <<i>> \o PendingFrom(goals, i + 1)
    ELSE PendingFrom(goals, i + 1)

\* The state of the loop of _execute_plan.
LoopState(goals, log, data, rec, call, attempts, adjustments, error) ==
    [goals |-> goals, log |-> log, data |-> data, rec |-> rec, call |-> call,
     attempts |-> attempts, adjustments |-> adjustments, error |-> error]

\* "for goal in self.current_goals" from position i on; ins[i] is what the
\* execute_task call for position i meets.  execute_task may raise; after
\* the status is set, the argument of adjust_joy is an attribute AppConfig
\* does not define, so its evaluation raises AttributeError and adjust_joy
\* is not entered.
RECURSIVE ExecuteFrom(_, _, _)
ExecuteFrom(st, i, ins) ==
    IF i > Len(st.goals) THEN st
    ELSE IF st.goals[i].status # "pending" THEN ExecuteFrom(st, i + 1, ins)
    ELSE LET res == Decide(RawDecision(ins[i].llm, ins[i].decision), ins[i].outcome)
             called ==
                 [st EXCEPT
                    !.log = Append(@, "Attempting goal: " \o st.goals[i].description),
                    !.attempts = Append(@, i),
                    !.call = CallRecord(st.rec.calls + 1, ins[i].llm, ins[i].decision,
                                        ins[i].outcome, res),
                    !.data = IF res.records = 1
                               THEN RecordToolPerformance(@, res.key, res.success)
                               ELSE @,
                    !.rec = [(IF res.records = 1 THEN Noted(@, res.key, res.success) ELSE @)
                               EXCEPT !.calls = @ + 1]]
             set == [called EXCEPT
                       !.goals[i].status = IF res.success THEN "achieved" ELSE "failed"]
         IN IF res.status = "raised" THEN [called EXCEPT !.error = res.error]
            ELSE IF JoyAdjustmentName(res.success) \notin AppConfigNames
                   THEN [set EXCEPT !.error = "AttributeError"]
            ELSE IF SaveStateRaises
                   THEN [set EXCEPT !.adjustments = @ + 1, !.error = "NameError"]
            ELSE ExecuteFrom([set EXCEPT !.adjustments = @ + 1,
                                         !.log = Append(@, "Goal resolved")],
                             i + 1, ins)

\* The arguments of adjust_joy in worker_mind.py: 0.1 and -0.05.
RootJoyBoost == 20

RootJoyReduce == -10

\* The loop of _execute_plan in worker_mind.py with the joy level of its
\* ObedienceLogic.
RootLoop(st, joy) == [loop |-> st, joy |-> joy]

\* "for goal in self.current_goals" of worker_mind.py from position i on:
\* the same statements, with adjust_joy(0.1) / adjust_joy(-0.05), which
\* changes the level and then raises NameError in _save_state.
RECURSIVE RootExecuteFrom(_, _, _)
RootExecuteFrom(r, i, ins) ==
    IF i > Len(r.loop.goals) THEN r
    ELSE IF r.loop.goals[i].status # "pending" THEN RootExecuteFrom(r, i + 1, ins)
    ELSE LET st == r.loop
             res == Decide(RawDecision(ins[i].llm, ins[i].decision), ins[i].outcome)
             called ==
                 [st EXCEPT
                    !.log = Append(@, "Attempting goal: " \o st.goals[i].description),
                    !.attempts = Append(@, i),
                    !.call = CallRecord(st.rec.calls + 1, ins[i].llm, ins[i].decision,
                                        ins[i].outcome, res),
                    !.data = IF res.records = 1
                               THEN RecordToolPerformance(@, res.key, res.success)
                               ELSE @,
                    !.rec = [(IF res.records = 1 THEN Noted(@, res.key, res.success) ELSE @)
                               EXCEPT !.calls = @ + 1]]
             set == [called EXCEPT
                       !.goals[i].status = IF res.success THEN "achieved" ELSE "failed",
                       !.adjustments = @ + 1]
             joy == Clamp(r.joy + IF res.success THEN RootJoyBoost ELSE RootJoyReduce)
         IN IF res.status = "raised" THEN RootLoop([called EXCEPT !.error = res.error], r.joy)
            ELSE IF SaveStateRaises THEN RootLoop([set EXCEPT !.error = "NameError"], joy)
            ELSE RootExecuteFrom(RootLoop([set EXCEPT !.log = Append(@, "Goal resolved")], joy),
                                 i + 1, ins)

\* _execute_plan of worker_mind.py on the twin, with the same inputs.
RootExecutePlan(ins) ==
    IF ~PlanTruthy(rt.current_plan) \/ rt.current_goals = <<>>
      THEN [rt EXCEPT !.daily_log = Append(@, "No plan or goals to execute.")]
      ELSE LET r == RootExecuteFrom(
                       RootLoop(LoopState(rt.current_goals,
                                          Append(rt.daily_log,
                                                 "Executing plan: '" \o rt.current_plan \o "'"),
                                          tool_performance_data, recorded, te, <<>>, 0, None),
                                rt.joy_level),
                       1, ins)
           IN RootWorkerMind(rt.current_plan, r.loop.goals, r.loop.log,
                             IF r.loop.error = None
                               THEN ProposalDoc(rt.current_plan, r.loop.goals, None)
                               ELSE rt.last_proposal_file,
                             r.joy, r.loop.adjustments, r.loop.error)

\* _execute_plan; ins gives, per position of the goal list, what an
\* execute_task call for it meets.  Nothing is written when the phase is
\* idle or an exception leaves it.
ExecutePlan(ins) ==
    /\ ph.pos = "planned"
    /\ rt' = RootExecutePlan(ins)
    /\ IF ~PlanTruthy(current_plan) \/ current_goals = <<>>
         THEN /\ daily_log' = Append(daily_log, "No plan or goals to execute.")
              /\ ph' = [ph EXCEPT !.pos = "executed"]
              /\ UNCHANGED <<current_goals, last_proposal_file, taskVars>>
         ELSE LET st == ExecuteFrom(
                          LoopState(current_goals,
                                    Append(daily_log, "Executing plan: '" \o current_plan \o "'"),
                                    tool_performance_data, recorded, te, <<>>, 0, None),
                          1, ins)
                  new == {[gen |-> ph.gen, idx |-> i, status |-> st.goals[i].status] :
                             i \in {j \in 1..Len(st.goals) :
                                       st.goals[j].status # current_goals[j].status}}
              IN /\ current_goals' = st.goals
                 /\ daily_log' = st.log
                 /\ tool_performance_data' = st.data
                 /\ tool_performance_file' = IF st.rec = recorded THEN tool_performance_file
                                                                 ELSE st.data
                 /\ recorded' = st.rec
                 /\ te' = st.call
                 /\ last_proposal_file' =
                       IF st.error = None THEN ProposalDoc(current_plan, st.goals, None)
                                          ELSE last_proposal_file
                 /\ ph' = [ph EXCEPT
                             !.pos = IF st.error = None THEN "executed" ELSE "raised",
                             !.pending = PendingFrom(current_goals, 1),
                             !.attempts = st.attempts,
                             !.adjustments = st.adjustments,
                             !.resolved = @ \cup new,
                             !.again = @ \/ \E i \in Range(st.attempts), x \in ph.resolved :
                                               x.gen = ph.gen /\ x.idx = i,
                             !.file_gen = IF st.error = None THEN ph.gen ELSE @,
                             !.error = st.error]
    /\ UNCHANGED <<manual_orders, manual_orders_sub, current_plan, last_orders_file,
                   daily_logs, running, gui, pc, local, phases, histVars, nstart>>
    /\ UNCHANGED <<pl, affectVars, memVars>>

\* The process is started again: a new WorkerMind loads the proposal
\* document (_load_last_state).
ReloadProposal ==
    /\ ph.restarts < MaxRestarts
    /\ current_plan' = LoadedPlan(last_proposal_file)
    /\ current_goals' = LoadedGoals(last_proposal_file)
    /\ daily_log' = <<>>
    /\ ph' = [ph EXCEPT !.pos = "idle", !.restarts = @ + 1, !.gen = ph.file_gen,
                        !.pending = <<>>, !.attempts = <<>>, !.adjustments = 0,
                        !.error = None]
    /\ rt' = RootWorkerMind(LoadedPlan(rt.last_proposal_file),
                            LoadedGoals(rt.last_proposal_file), <<>>,
                            rt.last_proposal_file, rt.joy_level, 0, None)
    /\ UNCHANGED <<manual_orders, manual_orders_sub, fileVars, daily_logs,
                   running, gui, pc, local, phases, histVars, nstart>>
    /\ UNCHANGED <<pl, affectVars, taskVars, memVars>>

InitOrchestrator ==
    /\ entry \in {"main", "direct"}
    /\ last_orders_file = IF entry = "main" THEN MainPlaceholderOrders ELSE NoFile
    /\ last_proposal_file = IF entry = "main" THEN MainPlaceholderProposal ELSE NoFile
    /\ manual_orders = LoadedOrders(last_orders_file)
    /\ manual_orders_sub = LoadedOrdersSub(last_orders_file)
    /\ current_plan = LoadedPlan(last_proposal_file)
    /\ current_goals = LoadedGoals(last_proposal_file)
    /\ daily_log = <<>>
    /\ daily_logs = <<>>
    /\ running = FALSE
    /\ gui = [pc |-> "idle", orders |-> None]
    /\ pc = [t \in Threads |-> "unborn"]
    /\ local = [t \in Threads |-> NoLocal]
    /\ phases = [t \in Threads |-> <<>>]
    /\ nsub = 0
    /\ last_submitted = None
    /\ prev_submitted = None
    /\ cleared = {}
    /\ boot = [initial |-> TRUE, sub |-> 0, open |-> FALSE, taken |-> FALSE]
    /\ nstart = 0

\* The orchestrator with its collaborators as the dashboard builds them.
Init == InitOrchestrator /\ AffectIdle /\ TaskIdle /\ PlanIdle /\ MemoryIdle

(***************************************************************************)
(* Dashboard handlers (Tk thread).                                         *)
(***************************************************************************)
\* start_worker_mind: "if not self.running", set the flag and start a new
\* thread running run_worker_mind_loop.
StartWorkerMind ==
    /\ gui.pc = "idle"
    /\ ~running
    /\ nstart < MaxStarts
    /\ running' = TRUE
    /\ nstart' = nstart + 1
    /\ pc' = [pc EXCEPT ![nstart + 1] = "while"]
    /\ UNCHANGED <<unitVars, wmVars, fileVars, daily_logs, gui, local, phases, histVars>>

\* stop_worker_mind called from the stop button: clear the flag.
StopWorkerMind ==
    /\ gui.pc = "idle"
    /\ running
    /\ running' = FALSE
    /\ UNCHANGED <<unitVars, wmVars, fileVars, daily_logs, gui, pc, local, phases, histVars, nstart>>

\* A receive_manual_orders that keeps an order that is already pending
\* instead of overwriting it (first write wins).
ReceiveAssignKeepFirst(o) ==
    /\ gui.pc = "idle"
    /\ nsub < MaxSubmits
    /\ manual_orders' = IF Truthy(manual_orders) THEN manual_orders ELSE o
    /\ manual_orders_sub' = IF Truthy(manual_orders) THEN manual_orders_sub ELSE nsub + 1
    /\ nsub' = nsub + 1
    /\ last_submitted' = o
    /\ prev_submitted' = last_submitted
    /\ gui' = [pc |-> "save_orders", orders |-> manual_orders']
    /\ last_orders_file' = TruncatedOrders
    /\ local' = [t \in Threads |->
                   IF pc[t] = "read_orders" THEN [local[t] EXCEPT !.arrived = TRUE]
                                            ELSE local[t]]
    /\ boot' = [boot EXCEPT !.open = FALSE]
    /\ UNCHANGED <<unitVars, current_plan, current_goals, daily_log, last_proposal_file, daily_logs,
                   running, pc, phases, cleared, entry, nstart>>

\* A receive_manual_orders that returns without writing the orders file.
ReceivePersistSkipped ==
    /\ gui.pc = "save_orders"
    /\ gui' = [pc |-> "idle", orders |-> None]
    /\ UNCHANGED <<unitVars, wmVars, fileVars, daily_logs, running, pc, local,
                   phases, histVars, nstart>>

\* submit_manual_orders -> receive_manual_orders: self.manual_orders =
\* orders, then open(self.last_orders_file, 'w').
ReceiveAssign(o) ==
    /\ gui.pc = "idle"
    /\ nsub < MaxSubmits
    /\ manual_orders' = o
    /\ manual_orders_sub' = nsub + 1
    /\ nsub' = nsub + 1
    /\ last_submitted' = o
    /\ prev_submitted' = last_submitted
    /\ gui' = [pc |-> "save_orders", orders |-> o]
    /\ last_orders_file' = TruncatedOrders
    /\ local' = [t \in Threads |->
                   IF pc[t] = "read_orders" THEN [local[t] EXCEPT !.arrived = TRUE]
                                            ELSE local[t]]
    /\ boot' = [boot EXCEPT !.open = FALSE]
    /\ UNCHANGED <<unitVars, current_plan, current_goals, daily_log, last_proposal_file, daily_logs,
                   running, pc, phases, cleared, entry, nstart>>

\* receive_manual_orders: json.dump of the orders document, and return.
ReceivePersist ==
    /\ gui.pc = "save_orders"
    /\ last_orders_file' = OrdersDoc(gui.orders, nsub)
    /\ gui' = [pc |-> "idle", orders |-> None]
    /\ UNCHANGED <<unitVars, wmVars, last_proposal_file, daily_logs, running, pc, local,
                   phases, histVars, nstart>>

(***************************************************************************)
(* Worker thread: run_worker_mind_loop and run_cycle.                      *)
(***************************************************************************)
\* "while self.running:" - the only read of the flag by the loop itself.
LoopCheck(t) ==
    /\ pc[t] = "while"
    /\ pc' = [pc EXCEPT ![t] = IF running THEN "reset_log" ELSE "exit"]
    /\ UNCHANGED <<unitVars, wmVars, fileVars, daily_logs, running, gui, local, phases,
                   histVars, nstart>>

\* run_cycle: self.daily_log = [].
CycleStart(t) ==
    /\ pc[t] = "reset_log"
    /\ daily_log' = <<>>
    /\ phases' = [phases EXCEPT ![t] = <<"Intake">>]
    /\ local' = [local EXCEPT ![t].sub_at_start =
                                 IF gui.pc = "idle" THEN manual_orders_sub ELSE 0]
    /\ pc' = [pc EXCEPT ![t] = "check_orders"]
    /\ UNCHANGED <<unitVars, manual_orders, manual_orders_sub, current_plan, current_goals,
                   fileVars, daily_logs, running, gui, histVars, nstart>>

\* run_cycle: "if self.manual_orders:".
CheckOrders(t) ==
    /\ pc[t] = "check_orders"
    /\ pc' = [pc EXCEPT ![t] = IF Truthy(manual_orders) THEN "read_orders" ELSE "reflect"]
    /\ UNCHANGED <<unitVars, wmVars, fileVars, daily_logs, running, gui, local, phases,
                   histVars, nstart>>

\* _process_manual_orders: orders_to_process = self.manual_orders and the
\* "Received manual orders" trace line.
ProcessRead(t) ==
    /\ pc[t] = "read_orders"
    /\ local' = [local EXCEPT ![t].orders_to_process = manual_orders,
                              ![t].sub = manual_orders_sub,
                              ![t].late = local[t].arrived /\ manual_orders_sub # 0,
                              ![t].again = manual_orders_sub \in cleared,
                              ![t].stale = manual_orders_sub \notin {0, nsub}]
    /\ daily_log' = Append(daily_log, "Received manual orders: " \o PyStr(manual_orders))
    /\ boot' = [boot EXCEPT !.open = FALSE,
                            !.taken = IF boot.open THEN manual_orders_sub = boot.sub ELSE @]
    /\ pc' = [pc EXCEPT ![t] = "make_plan"]
    /\ UNCHANGED <<unitVars, manual_orders, manual_orders_sub, current_plan, current_goals,
                   fileVars, daily_logs, running, gui, phases, nsub, last_submitted,
                   prev_submitted,
                   cleared, entry, nstart>>

\* The plan text synthesised for a manual order.
ManualPlan(o) == "Fulfill manual order: " \o PyStr(o)

\* _process_manual_orders: the single-goal plan, then
\* open(self.last_proposal_file, 'w').
ProcessPlan(t) ==
    /\ pc[t] = "make_plan"
    /\ current_plan' = ManualPlan(local[t].orders_to_process)
    /\ current_goals' = <<Goal(local[t].orders_to_process, "pending")>>
    /\ last_proposal_file' = TruncatedProposal
    /\ pc' = [pc EXCEPT ![t] = "save_proposal"]
    /\ UNCHANGED <<unitVars, manual_orders, manual_orders_sub, daily_log, last_orders_file,
                   daily_logs, running, gui, local, phases, histVars, nstart>>

\* _process_manual_orders: json.dump of the attributes as they are now.
SaveProposal(t) ==
    /\ pc[t] = "save_proposal"
    /\ last_proposal_file' = ProposalDoc(current_plan, current_goals, "manual_orders")
    /\ pc' = [pc EXCEPT ![t] = "clear_orders"]
    /\ UNCHANGED <<unitVars, wmVars, last_orders_file, daily_logs, running, gui, local,
                   phases, histVars, nstart>>

\* run_cycle: self.manual_orders = None.
ClearOrders(t) ==
    /\ pc[t] = "clear_orders"
    /\ manual_orders' = None
    /\ manual_orders_sub' = 0
    /\ cleared' = IF local[t].sub = 0 THEN cleared ELSE cleared \cup {local[t].sub}
    /\ pc' = [pc EXCEPT ![t] = "reflect"]
    /\ UNCHANGED <<unitVars, current_plan, current_goals, daily_log, fileVars, daily_logs,
                   running, gui, local, phases, nsub, last_submitted, prev_submitted, entry, boot,
                   nstart>>

\* _reflect_on_past_performance: its first statement is the call of
\* get_recent_activities(days=1); the exception propagates out of run_cycle.
Reflect(t) ==
    /\ pc[t] = "reflect"
    /\ GetRecentActivitiesRaises(1)
    /\ phases' = [phases EXCEPT ![t] = Append(@, "Reflect")]
    /\ pc' = [pc EXCEPT ![t] = "except"]
    /\ UNCHANGED <<unitVars, wmVars, fileVars, daily_logs, running, gui, local, histVars, nstart>>

\* run_worker_mind_loop: "except Exception" logs and calls stop_worker_mind,
\* which reads the flag and clears it; the thread then ends.
HandleException(t) ==
    /\ pc[t] = "except"
    /\ running' = FALSE
    /\ pc' = [pc EXCEPT ![t] = "exit"]
    /\ local' = [local EXCEPT ![t] = NoLocal]
    /\ phases' = [phases EXCEPT ![t] = <<>>]
    /\ UNCHANGED <<unitVars, wmVars, fileVars, daily_logs, gui, histVars, nstart>>

(***************************************************************************)
(* Process crash and restart: every thread is gone, the components are     *)
(* constructed again and _load_last_state reads the two documents.  A      *)
(* receive_manual_orders call cut short before its json.dump never         *)
(* returned: it is not counted as a submission.                            *)
(***************************************************************************)
Restart ==
    /\ manual_orders' = LoadedOrders(last_orders_file)
    /\ manual_orders_sub' = LoadedOrdersSub(last_orders_file)
    /\ current_plan' = LoadedPlan(last_proposal_file)
    /\ current_goals' = LoadedGoals(last_proposal_file)
    /\ daily_log' = <<>>
    /\ running' = FALSE
    /\ gui' = [pc |-> "idle", orders |-> None]
    /\ pc' = [t \in Threads |-> IF pc[t] = "unborn" THEN "unborn" ELSE "exit"]
    /\ local' = [t \in Threads |-> NoLocal]
    /\ phases' = [t \in Threads |-> <<>>]
    /\ nsub' = LoadedOrdersSub(last_orders_file)
    /\ prev_submitted' = None
    /\ last_submitted' = IF LoadedOrdersSub(last_orders_file) = 0 THEN None
                         ELSE LoadedOrders(last_orders_file)
    /\ cleared' = cleared \cap (1..LoadedOrdersSub(last_orders_file))
    /\ boot' = [initial |-> FALSE, sub |-> LoadedOrdersSub(last_orders_file),
                open |-> LoadedOrdersSub(last_orders_file) # 0, taken |-> FALSE]
    /\ UNCHANGED <<unitVars, fileVars, daily_logs, entry, nstart>>

\* Every step of the program except the start button.
Step ==
    \/ StopWorkerMind
    \/ \E o \in Orders : ReceiveAssign(o)
    \/ ReceivePersist
    \/ \E t \in Threads : LoopCheck(t)
    \/ \E t \in Threads : CycleStart(t)
    \/ \E t \in Threads : CheckOrders(t)
    \/ \E t \in Threads : ProcessRead(t)
    \/ \E t \in Threads : ProcessPlan(t)
    \/ \E t \in Threads : SaveProposal(t)
    \/ \E t \in Threads : ClearOrders(t)
    \/ \E t \in Threads : Reflect(t)
    \/ \E t \in Threads : HandleException(t)
    \/ Restart

Next == StartWorkerMind \/ Step

Spec == Init /\ [][Next]_vars

(***************************************************************************)
(* The deployment section 5 of the design assumes: the operator presses    *)
(* start again only after the previous loop thread has ended, so worker    *)
(* threads never overlap.  Handlers, the worker thread and crashes still   *)
(* interleave freely.                                                      *)
(***************************************************************************)
StartWorkerMindAlone ==
    /\ \A t \in Threads : pc[t] \in {"unborn", "exit"}
    /\ StartWorkerMind

NextSingleLoop == StartWorkerMindAlone \/ Step

SpecSingleLoop == Init /\ [][NextSingleLoop]_vars

(***************************************************************************)
(* The collaborators on their own: any sequence of calls on one            *)
(* ObedienceLogic, and any sequence of calls on one TaskEngine and its     *)
(* MemoryManager.                                                          *)
(***************************************************************************)
OrchestratorIdle == InitOrchestrator /\ entry = "main"

InitAffectOnly == OrchestratorIdle /\ InitAffect /\ TaskIdle /\ PlanIdle /\ MemoryIdle

NextAffect ==
    \/ \E delta \in Deltas : AdjustJoy(delta)
    \/ \E delta \in Deltas : AdjustObedience(delta)
    \/ UpdateLevels
    \/ Tick

SpecAffect == InitAffectOnly /\ [][NextAffect]_vars

InitTaskOnly == OrchestratorIdle /\ AffectIdle /\ InitTask /\ PlanIdle /\ MemoryIdle

NextTask ==
    \/ \E llm \in BOOLEAN, d \in Decisions, o \in ToolOutcomes \cup {None} :
          ExecuteTask(llm, d, o)
    \/ \E k \in Keys, success \in BOOLEAN : RecordCall(k, success)

SpecTask == InitTaskOnly /\ [][NextTask]_vars

\* The planner on its own.
InitPlannerOnly == OrchestratorIdle /\ AffectIdle /\ TaskIdle /\ PlanIdle /\ MemoryIdle

NextPlanner == \E llm \in BOOLEAN, r \in Responses \cup {NoResponse} : Propose(llm, r)

SpecPlanner == InitPlannerOnly /\ [][NextPlanner]_vars

\* The phases in a data directory an earlier run has left.
InitPhases ==
    /\ entry = "main"
    /\ last_orders_file = MainPlaceholderOrders
    /\ last_proposal_file \in PhaseFiles
    /\ manual_orders = LoadedOrders(last_orders_file)
    /\ manual_orders_sub = LoadedOrdersSub(last_orders_file)
    /\ current_plan = LoadedPlan(last_proposal_file)
    /\ current_goals = LoadedGoals(last_proposal_file)
    /\ daily_log = <<>>
    /\ daily_logs = <<>>
    /\ running = FALSE
    /\ gui = [pc |-> "idle", orders |-> None]
    /\ pc = [t \in Threads |-> "unborn"]
    /\ local = [t \in Threads |-> NoLocal]
    /\ phases = [t \in Threads |-> <<>>]
    /\ nsub = 0
    /\ last_submitted = None
    /\ prev_submitted = None
    /\ cleared = {}
    /\ boot = [initial |-> TRUE, sub |-> 0, open |-> FALSE, taken |-> FALSE]
    /\ nstart = 0
    /\ AffectIdle /\ TaskIdle /\ PlanIdle /\ MemoryIdle

NextPhases ==
    \/ BeginCycle
    \/ \E llm \in BOOLEAN, r \in PhaseResponses \cup {NoResponse} : PlanNextActions(llm, r)
    \/ \E ins \in [1..Len(current_goals) -> TaskInputs] : ExecutePlan(ins)
    \/ ReloadProposal

SpecPhases == InitPhases /\ [][NextPhases]_vars

\* The MemoryManager on its own, with the statements of the reflection
\* phase that follow get_recent_activities.
InitMemoryOnly ==
    /\ entry = "main"
    /\ last_orders_file = MainPlaceholderOrders
    /\ last_proposal_file = MainPlaceholderProposal
    /\ manual_orders = LoadedOrders(last_orders_file)
    /\ manual_orders_sub = LoadedOrdersSub(last_orders_file)
    /\ current_plan = LoadedPlan(last_proposal_file)
    /\ current_goals = LoadedGoals(last_proposal_file)
    /\ daily_log = <<>>
    /\ InitMemory
    /\ daily_logs = LoadedLogs(memory_file)
    /\ running = FALSE
    /\ gui = [pc |-> "idle", orders |-> None]
    /\ pc = [t \in Threads |-> "unborn"]
    /\ local = [t \in Threads |-> NoLocal]
    /\ phases = [t \in Threads |-> <<>>]
    /\ nsub = 0
    /\ last_submitted = None
    /\ prev_submitted = None
    /\ cleared = {}
    /\ boot = [initial |-> TRUE, sub |-> 0, open |-> FALSE, taken |-> FALSE]
    /\ nstart = 0
    /\ AffectIdle /\ TaskIdle /\ PlanIdle

NextMemory ==
    \/ \E llm \in BOOLEAN, outcome \in ReflectOutcomes \cup {None},
          w \in WriteOutcomes \cup {None} : ReflectOnPastPerformance(llm, outcome, w)
    \/ \E w \in WriteOutcomes : LogDailyActivity(w)
    \/ \E days \in Windows : GetRecentActivities(days)
    \/ ReloadMemory

SpecMemory == InitMemoryOnly /\ [][NextMemory]_vars

(***************************************************************************)
(* Vocabulary of the properties.                                           *)
(***************************************************************************)
\* run_cycle is executing on thread t (between its first statement and the
\* point where it leaves the function).
InCycle(t) == pc[t] \in {"check_orders", "read_orders", "make_plan",
                         "save_proposal", "clear_orders", "reflect"}

\* run_cycle has ended on thread t and control is back in the loop.  The
\* only way out of run_cycle that the code can take is the exception
\* raised in Reflect, which lands in the loop's handler.
CycleOver(t) == pc[t] = "except"

\* The cycle on thread t took a manual order in its Intake phase.
TookOrder(t) == local[t].sub # 0

\* The phases of a cycle as section 4.5 of the design lists them.
AllPhases == <<"Intake", "Reflect", "Plan", "Execute", "AffectUpdate", "Log">>

\* The step of Intake that turns the order read into the plan leaves
\* exactly one goal, whose text is the order the cycle read.
GoalCarriesOrderRead ==
    \A t \in Threads :
        (pc[t] = "make_plan" /\ pc'[t] = "save_proposal") =>
            /\ current_plan' = ManualPlan(local[t].orders_to_process)
            /\ current_goals' = <<Goal(local[t].orders_to_process, "pending")>>

(***************************************************************************)
(* Properties.                                                             *)
(***************************************************************************)
\* C1: a cycle that took a manual order in Intake skips Plan, so it enters
\* Execute with the manual plan, and the planner is not called in it.
C1_ManualPlanReachesExecute ==
    \A t \in Threads :
        (CycleOver(t) /\ TookOrder(t)) =>
            /\ "Execute" \in Range(phases[t])
            /\ "Plan" \notin Range(phases[t])

\* Scenario S1 has been performed: a fresh directory without files, one
\* receive_manual_orders("ping") that returned, then one run_cycle, which
\* took that order and has ended.
S1Performed ==
    /\ entry = "direct" /\ boot.initial
    /\ nsub = 1 /\ last_submitted = "ping" /\ gui.pc = "idle"
    /\ nstart = 1 /\ CycleOver(1)
    /\ local[1].sub_at_start = 1 /\ local[1].sub = 1

\* C2 (scenario S1): on a fresh directory, receive_manual_orders("ping")
\* followed by one run_cycle leaves the plan "Fulfill manual order: ping",
\* exactly one goal "ping" with a terminal status, no pending order, and
\* exactly one new record in the daily log file.
C2_ScenarioS1 ==
    S1Performed =>
        /\ current_plan = ManualPlan("ping")
        /\ Len(current_goals) = 1
        /\ current_goals[1].description = "ping"
        /\ current_goals[1].status \in {"achieved", "failed"}
        /\ manual_orders = None
        /\ Len(daily_logs) = 1

\* C3: a received order is consumed by exactly one cycle: no cycle reads a
\* submission that an earlier cycle already processed and cleared, also
\* when the process was restarted from the persisted files in between.
C3_OrderConsumedOnce == \A t \in Threads : ~local[t].again

\* Once receive_manual_orders has returned, the orders file holds the order
\* it was given.
OrderPersistedOnReturn ==
    (gui.pc = "idle" /\ nsub > 0) =>
        /\ last_orders_file.exists
        /\ last_orders_file.orders = last_submitted
        /\ last_orders_file.sub = nsub

\* While nothing has read or overwritten the order a new instance loaded,
\* that order is pending, and no cycle has gone past Intake without it.
ReloadedOrderPending ==
    boot.open =>
        /\ Truthy(manual_orders)
        /\ manual_orders = last_orders_file.orders
        /\ manual_orders_sub = boot.sub
        /\ \A t \in Threads : pc[t] \notin {"make_plan", "save_proposal", "clear_orders",
                                            "reflect", "except"}

\* When a cycle (and not a new submission) ended that period, the cycle
\* read the loaded order.
FirstCycleTakesReloadedOrder ==
    (~boot.initial /\ boot.sub # 0 /\ ~boot.open /\ nsub = boot.sub) => boot.taken

PendingOrderIsLatest ==
    /\ manual_orders_sub # 0 =>
          /\ manual_orders_sub = nsub
          /\ manual_orders = last_submitted
    /\ (gui.pc = "idle" /\ nsub > 0 /\ \A t \in Threads : pc[t] = "unborn") =>
          /\ manual_orders = last_submitted
          /\ last_orders_file.orders = last_submitted

\* A cycle never reads a submission older than the latest one, and what it
\* read as the latest submission is that submission's text.
OnlyLatestOrderRead ==
    \A t \in Threads :
        /\ ~local[t].stale
        /\ (local[t].sub # 0 /\ local[t].sub = nsub) =>
              local[t].orders_to_process = last_submitted

C6_MidCycleSubmissionIgnored == \A t \in Threads : ~local[t].late

\* C7: at most one run_cycle execution is in progress at any time.
C7_AtMostOneCycle == Cardinality({t \in Threads : InCycle(t)}) <= 1

\* C8: a cycle that has begun goes through Execute, AffectUpdate and Log
\* before control returns to the loop and the running flag is looked at.
C8_CycleRunsToLog ==
    \A t \in Threads :
        CycleOver(t) => {"Execute", "AffectUpdate", "Log"} \subseteq Range(phases[t])

\* C9: every cycle passes Intake, Reflect, Plan, Execute, AffectUpdate and
\* Log, in that order.
C9_FixedPhaseOrder == \A t \in Threads : CycleOver(t) => phases[t] = AllPhases

\* C10: no exception escapes run_cycle.
C10_RunCycleNeverRaises == \A t \in Threads : pc[t] # "except"

\* C11: every cycle that has run appended exactly one record to the daily
\* logs, and that record is the cycle's own activity trace.
C11_OneRecordPerCycle ==
    \A t \in Threads :
        CycleOver(t) =>
            /\ Len(daily_logs) >= 1
            /\ daily_logs[Len(daily_logs)] = daily_log

(***************************************************************************)
(* Properties of ObedienceLogic.                                           *)
(***************************************************************************)
\* C12: whenever an ObedienceLogic object exists, after construction and
\* after every adjust_joy, adjust_obedience and update_levels call, joy and
\* obedience are both within [0, 1].
C12_LevelsInRange ==
    ol.status # "unbuilt" =>
        /\ joy_level \in 0..Scale
        /\ obedience_level \in 0..Scale

\* update_levels pushed obedience past 1.0 and it was clamped to 1.0.
C12_Witness ==
    /\ ol.status # "unbuilt"
    /\ ol.last = "update_levels"
    /\ ol.clamped
    /\ obedience_level = Scale

(***************************************************************************)
(* Properties of the tool counters and of execute_task.                    *)
(***************************************************************************)
Usage(k) == Count(tool_performance_data.tool_usage, k)

Success(k) == Count(tool_performance_data.tool_success, k)

\* An execute_task call is made in this step.
Executes == te'.n # te.n

\* In this step the counters of key k move by du and ds and those of every
\* other key stay as they are.
CountersMove(k, du, ds) ==
    /\ Count(tool_performance_data'.tool_usage, k) = Usage(k) + du
    /\ Count(tool_performance_data'.tool_success, k) = Success(k) + ds
    /\ \A x \in Keys \ {k} :
          /\ Count(tool_performance_data'.tool_usage, x) = Usage(x)
          /\ Count(tool_performance_data'.tool_success, x) = Success(x)

CountersOrdered ==
    /\ DOMAIN tool_performance_data.tool_usage = DOMAIN tool_performance_data.tool_success
    /\ \A k \in Keys : Success(k) <= Usage(k)

CountersGrow ==
    \A k \in Keys :
        /\ Count(tool_performance_data'.tool_usage, k) >= Usage(k)
        /\ Count(tool_performance_data'.tool_success, k) >= Success(k)

\* C13: for every key the success counter never exceeds the usage counter,
\* and neither counter ever decreases.
C13_SuccessAtMostUsage == []CountersOrdered /\ [][CountersGrow]_vars

\* A key recorded twice, once as a success and once as a failure.
C13_Witness ==
    \E k \in Keys : recorded.n[k] = 2 /\ recorded.ok[k] = 1 /\ Usage(k) = 2 /\ Success(k) = 1

\* C14: the usage counter of a key is the number of records made for it
\* and its success counter the number of successful ones; a key never
\* recorded has no counters.
C14_RecordCountsExactly ==
    \A k \in Keys :
        /\ Usage(k) = recorded.n[k]
        /\ Success(k) = recorded.ok[k]
        /\ k \in DOMAIN tool_performance_data.tool_usage <=> recorded.n[k] > 0

\* Two successful records for "search_web" and nothing else.
C14_Witness ==
    /\ recorded.calls = 2
    /\ recorded.n["search_web"] = 2 /\ recorded.ok["search_web"] = 2
    /\ Usage("search_web") = 2 /\ Success("search_web") = 2

\* C15: without a client, execute_task returns failure with the
\* not-configured text and goes through neither of its two steps.
C15_NoClientFailsAtOnce ==
    (te.n > 0 /\ ~te.llm) =>
        /\ te.status = "returned"
        /\ ~te.success
        /\ te.output = NotConfiguredMessage
        /\ te.steps = <<>>

\* The decision is a mapping with a direct-response flag and a content.
\* The flag is true as JSON text or as the JSON literal.
DirectShape(d, flags) ==
    /\ d.kind = "mapping"
    /\ {"direct_response", "response_content"} \subseteq d.keys
    /\ d.direct \in flags

\* A call that takes the direct response: (true, content), the direct key
\* counted once as a success, no tool called.
DirectResponseTaken ==
    /\ te'.status = "returned"
    /\ te'.success
    /\ te'.output = te'.decision.content
    /\ te'.tool_invoked = None
    /\ CountersMove(DirectKey, 1, 1)

\* C16 as stated: a decision whose direct-response flag is true, as text
\* or as the JSON literal, makes execute_task return (true, content) and
\* count the direct key once as a success, with no tool called.
C16_DirectResponse ==
    [][(Executes /\ te'.llm /\ DirectShape(te'.decision, {"str:true", "bool:true"}))
          => DirectResponseTaken]_vars

\* C16 amended: a decision whose direct-response flag is the text "true"
\* makes execute_task return (true, content) and count the direct key once
\* as a success, with no tool called.
C16_DirectResponseText ==
    [][(Executes /\ te'.llm /\ DirectShape(te'.decision, {"str:true"}))
          => DirectResponseTaken]_vars

\* The first call took the direct response "X".
C16_Witness ==
    /\ te.n = 1 /\ te.llm
    /\ DirectShape(te.decision, {"str:true"})
    /\ te.success /\ te.output = "X"
    /\ Usage(DirectKey) = 1 /\ Success(DirectKey) = 1

C18_ToolCallRecorded ==
    [][(Executes /\ te'.llm /\ TakesToolBranch(te'.decision)) =>
          /\ te'.status = "returned"
          /\ te'.tool_invoked = te'.decision.tool
          /\ te'.success <=> te'.outcome = "ok"
          /\ te'.success => te'.output = ToolOutput
          /\ ~te'.success =>
                te'.output = "Error calling tool '" \o te'.decision.tool \o "': "
                               \o CallTool(te'.decision.tool, te'.outcome).value
          /\ CountersMove(te'.decision.tool, 1, IF te'.outcome = "ok" THEN 1 ELSE 0)]_vars

\* The first call named a tool the registry does not know.
C18_Witness ==
    /\ te.n = 1 /\ te.llm /\ TakesToolBranch(te.decision)
    /\ te.outcome = "not_found"
    /\ te.status = "returned" /\ ~te.success
    /\ Usage(te.decision.tool) = 1 /\ Success(te.decision.tool) = 0

\* C19: every execute_task call that returns has made exactly one
\* record_tool_performance call and exactly one add_log_entry call.
C19_RecordedAndLoggedOnce ==
    te.status = "returned" => (te.records = 1 /\ te.log_entries = 1)

\* The decision parses and is neither a direct response nor a tool call.
NeitherShape(d) ==
    /\ d.kind \notin {"none", "not_json"}
    /\ ~(d.kind = "mapping" /\ "direct_response" \in d.keys)
    /\ ~(d.kind = "mapping" /\ {"tool_name", "tool_args"} \subseteq d.keys)

\* C20: for every parseable decision that has neither shape, mappings and
\* other values alike, execute_task returns failure and counts it under
\* the unclear key; it does not raise.
C20_UnclearPayloadFails ==
    (te.n > 0 /\ te.llm /\ NeitherShape(te.decision)) =>
        /\ te.status = "returned"
        /\ ~te.success
        /\ te.key = UnclearKey

(***************************************************************************)
(* Properties of the planner and of the Plan and Execute phases.           *)
(***************************************************************************)
\* C21: a propose_plan_and_goals call always returns; for a response that
\* is not JSON or is JSON other than an object it returns one of the two
\* failure texts and an empty goal list.
C21_PlannerNeverRaises ==
    pl.status # "none" =>
        /\ pl.status = "returned"
        /\ (pl.llm /\ pl.response.kind \in {"not_json", "array", "number", "string", "null"})
              => /\ pl.plan \in {JsonFailurePlan, InternalFailurePlan}
                 /\ pl.goals = <<>>

\* The response was a JSON array.
C21_Witness ==
    /\ pl.status = "returned" /\ pl.llm
    /\ pl.response.kind = "array"
    /\ pl.plan = InternalFailurePlan /\ pl.goals = <<>>

\* The Plan phase of the current cycle has run.
Planned == ph.pos \in {"planned", "executed", "raised"}

\* C22: in a cycle without a manual order whose planning response is not
\* JSON, the current plan is the planner's failure text, the goal list is
\* empty, execute_task is not called and nothing is raised.
C22_ScenarioS2 ==
    (Planned /\ pl.llm /\ pl.response.kind = "not_json") =>
        /\ current_plan = JsonFailurePlan
        /\ current_goals = <<>>
        /\ ph.attempts = <<>>
        /\ ph.error = None

\* The entry is an object with both a description and a status.
HasBoth(e) == e.kind = "dict" /\ {"description", "status"} \subseteq e.keys

\* The positions of the entries of the response that have both fields.
Kept == IF "goals" \in pl.response.keys /\ pl.response.goals.kind = "list"
          THEN {i \in 1..Len(pl.response.goals.items) : HasBoth(pl.response.goals.items[i])}
          ELSE {}

\* C23: the goal list returned for a JSON object is the subsequence of the
\* entries of its "goals" array that have both a description and a status,
\* in their order; it is empty when "goals" is not an array.
C23_GoalsAreValidSubsequence ==
    (pl.status = "returned" /\ pl.llm /\ pl.response.kind = "object") =>
        /\ Len(pl.goals) = Cardinality(Kept)
        /\ \A i \in Kept :
              pl.goals[Cardinality({j \in Kept : j <= i})] =
                  Goal(pl.response.goals.items[i].description,
                       pl.response.goals.items[i].status)

\* An entry without a status was dropped and the one after it kept.
C23_Witness ==
    /\ pl.status = "returned" /\ pl.llm /\ pl.response.kind = "object"
    /\ "goals" \in pl.response.keys /\ pl.response.goals.kind = "list"
    /\ Len(pl.response.goals.items) = 2
    /\ pl.response.goals.items[1].keys = {"description"}
    /\ Kept = {2}
    /\ pl.goals = <<Goal(pl.response.goals.items[2].description, "pending")>>

\* The Plan phase runs in this step.
Plans == ph.pos = "reflected" /\ ph'.pos = "planned"

\* What the Plan phase leaves: the proposal when take holds, else the idle
\* marker and the empty list; and an empty list is never executed.
PlanReplacesBoth(take) ==
    /\ Plans =>
          IF take
            THEN current_plan' = pl'.plan /\ current_goals' = pl'.goals
            ELSE current_plan' = IdlePlan /\ current_goals' = <<>>
    /\ (ph.pos = "planned" /\ ph'.pos # "planned" /\ current_goals = <<>>)
          => (ph'.attempts = <<>> /\ te' = te)

C25_ExecuteAttemptsEveryPendingGoal ==
    ph.pos \in {"executed", "raised"} =>
        /\ ph.attempts = ph.pending
        /\ ph.adjustments = Len(ph.pending)
        /\ \A i \in Range(ph.pending) : current_goals[i].status \in {"achieved", "failed"}

\* C26: a goal that execute_task has resolved keeps the status it was
\* given, also after the goal list is loaded again from the proposal
\* document, and execute_task is not called for it again.
C26_ResolvedGoalsStayResolved ==
    /\ ~ph.again
    /\ \A x \in ph.resolved :
          x.gen = ph.gen =>
              /\ x.idx <= Len(current_goals)
              /\ current_goals[x.idx].status = x.status

(***************************************************************************)
(* Properties of update_levels.                                            *)
(***************************************************************************)
\* update_levels is called in this step with a timestamp it can read.
Updates == ol'.calls # ol.calls /\ ol'.last = "update_levels" /\ last_update_time = "set"

\* C27: update_levels decays over the time since the latest _save_state
\* call (at first, since the time in the state document).
C27_ElapsedSinceLastPersist ==
    [][Updates =>
          /\ joy_level' = Clamp(InfluencedJoy(now - ol.saved_at))
          /\ obedience_level' = Clamp(InfluencedObedience(now - ol.saved_at))]_vars

\* C28: an ObedienceLogic built without a timestamp in its state document
\* exists, and its first update_levels leaves both levels as loaded.
C28_FirstUpdateWithoutTimestamp ==
    LoadedTime(state_file) = None =>
        /\ ol.status # "unbuilt"
        /\ (ol.calls = 1 /\ ol.last = "update_levels") =>
              /\ joy_level = Clamp(LoadedJoy(state_file))
              /\ obedience_level = Clamp(LoadedObedience(state_file))

\* update_levels takes both levels down by their decay over the elapsed
\* time and nothing else.
DecayOnly ==
    /\ joy_level' = joy_level - joy_decay_rate * TimeDiff
    /\ obedience_level' = obedience_level - obedience_decay_rate * TimeDiff

\* C29 as stated: with joy between the two thresholds and obedience not
\* above the high one when update_levels is called, both levels go down by
\* exactly their decay rate times the elapsed time.
C29_DecayOnly ==
    [][(Updates /\ joy_level >= LowThreshold /\ joy_level <= HighThreshold
                /\ obedience_level <= HighThreshold) => DecayOnly]_vars

\* C29 amended: with the decayed joy between the two thresholds, the
\* decayed obedience not above the high one and not below 0, both levels
\* go down by exactly their decay rate times the elapsed time.
C29_DecayOnlyWithinLimits ==
    [][(Updates /\ joy_level - joy_decay_rate * TimeDiff >= LowThreshold
                /\ joy_level - joy_decay_rate * TimeDiff <= HighThreshold
                /\ obedience_level - obedience_decay_rate * TimeDiff <= HighThreshold
                /\ obedience_level - obedience_decay_rate * TimeDiff >= 0) => DecayOnly]_vars

\* From 0.5 / 0.5, the first call was update_levels one time unit after
\* the timestamp.
C29_Witness ==
    /\ state_file.exists /\ state_file.joy_level = DefaultLevel
    /\ state_file.obedience_level = DefaultLevel
    /\ ol.calls = 1 /\ ol.last = "update_levels"
    /\ joy_level = DefaultLevel - joy_decay_rate
    /\ obedience_level = DefaultLevel - obedience_decay_rate

\* Scenario S4: update_levels is called in this step with joy at 0.8, one
\* time unit (100 seconds) after the timestamp.
S4Step == Updates /\ joy_level = 160 /\ TimeDiff = 1

\* C30 as stated: in scenario S4 obedience goes up by the influence rate
\* times 100 seconds, limited to 1.0.
C30_ScenarioS4 ==
    [][S4Step => obedience_level' = Clamp(obedience_level + ObedienceInfluenceRate)]_vars

\* C30 amended: in scenario S4 obedience goes up by the influence rate
\* less the obedience decay rate, times 100 seconds, limited to 1.0.
C30_ScenarioS4LessDecay ==
    [][S4Step => obedience_level' =
                    Clamp(obedience_level + ObedienceInfluenceRate - obedience_decay_rate)]_vars

\* From joy 0.8 and obedience 0.5, the first call was update_levels 100
\* seconds after the timestamp.
C30_Witness ==
    /\ state_file.exists /\ state_file.joy_level = 160
    /\ state_file.obedience_level = DefaultLevel
    /\ ol.calls = 1 /\ ol.last = "update_levels"
    /\ joy_level = 160 - joy_decay_rate
    /\ obedience_level = DefaultLevel + ObedienceInfluenceRate - obedience_decay_rate

(***************************************************************************)
(* Properties of the memory store.                                         *)
(***************************************************************************)
\* reflect is called in this step.
Reflects == mm'.n # mm.n /\ mm'.op = "reflect"

C32_RecentActivitiesReturned ==
    mm.op = "get_recent_activities" =>
        /\ mm.status = "returned"
        /\ mm.result = RecentFrom(daily_logs, 1, MaxDay - mm.days)

(***************************************************************************)
(* Properties of persistence.                                              *)
(***************************************************************************)
\* The last call on the ObedienceLogic was one that ends with _save_state.
AffectPersisted == ol.last \in {"adjust_joy", "adjust_obedience"}

\* C33: after a call that persists the affect state, an ObedienceLogic
\* built from the state document has the levels and the timestamp of the
\* object that persisted them.
C33_AffectStateRoundTrip ==
    AffectPersisted =>
        /\ Clamp(LoadedJoy(state_file)) = joy_level
        /\ Clamp(LoadedObedience(state_file)) = obedience_level
        /\ LoadedTime(state_file) = last_update_time
        /\ ol.saved_at = ol.at

\* C34: a failure to persist the affect state does not fail adjust_joy or
\* adjust_obedience: the call returns with the level changed.
C34_PersistFailureNotRaised ==
    AffectPersisted => ol.status = "ok"

(***************************************************************************)
(* Properties of the two orchestrators.                                    *)
(***************************************************************************)
\* The plan, the goals with their statuses, the activity trace and the
\* proposal document of the two orchestrators are the same.
TwinsAgreeOnPlan ==
    /\ rt.current_plan = current_plan
    /\ rt.current_goals = current_goals
    /\ rt.daily_log = daily_log
    /\ rt.last_proposal_file = last_proposal_file

\* C35: given the same inputs the two orchestrators stay in corresponding
\* states and apply a joy adjustment for the same goal outcomes, of
\* magnitudes that may differ.
C35_OrchestratorsCorrespond ==
    /\ TwinsAgreeOnPlan
    /\ rt.adjustments = ph.adjustments

(***************************************************************************)
(* Properties of the order slot under concurrency.                         *)
(***************************************************************************)
\* C36: the statement that clears the pending order at the end of Intake
\* only discards the submission this cycle has read and turned into its
\* goal, never one that was assigned after the read.
C36_ClearDiscardsOnlyProcessed ==
    [][\A t \in Threads :
          (pc[t] = "clear_orders" /\ pc'[t] = "reflect") =>
              manual_orders_sub = local[t].sub]_vars

(***************************************************************************)
(* Properties of the goal list at the end of a cycle.                      *)
(***************************************************************************)
\* C37: when the Execute phase of a cycle has returned, the proposal
\* document holds the current plan and the current goals with their
\* statuses, so that _load_last_state gives them back.
C37_ProposalFileIsCurrent ==
    ph.pos = "executed" =>
        /\ LoadedPlan(last_proposal_file) = current_plan
        /\ LoadedGoals(last_proposal_file) = current_goals

\* The statuses a goal can have.
GoalStatuses == {"pending", "achieved", "failed"}

\* C38: every goal of the current goal list has one of the three statuses,
\* and when the Execute phase of a cycle has returned every goal is
\* achieved or failed.
C38_GoalStatusesClosed ==
    /\ \A i \in 1..Len(current_goals) : current_goals[i].status \in GoalStatuses
    /\ ph.pos = "executed" =>
          \A i \in 1..Len(current_goals) :
              current_goals[i].status \in {"achieved", "failed"}

(***************************************************************************)
(* Properties relating goal outcomes and the tool statistics.              *)
(***************************************************************************)
\* The sum of the counters of f.
RECURSIVE SumOver(_, _)
SumOver(f, S) ==
    IF S = {} THEN 0
    ELSE LET k == CHOOSE x \in S : TRUE IN f[k] + SumOver(f, S \ {k})

TotalOf(f) == SumOver(f, DOMAIN f)

\* The goals that get status s in this step.
Become(s) ==
    {i \in 1..Len(current_goals') :
        /\ current_goals'[i].status = s
        /\ i \in 1..Len(current_goals) => current_goals[i].status # s}

\* The Execute phase runs in this step.
ExecutesPlan == ph.pos = "planned" /\ ph'.pos \in {"executed", "raised"}

\* C39: in the Execute phase of every cycle the number of goals that
\* become achieved is the increase of the sum of the success counters and
\* the number of goals that become achieved or failed is the increase of
\* the sum of the usage counters; no other phase moves the counters.
C39_OutcomesMatchCounters ==
    [][IF ExecutesPlan
         THEN /\ TotalOf(tool_performance_data'.tool_success)
                   = TotalOf(tool_performance_data.tool_success)
                       + Cardinality(Become("achieved"))
              /\ TotalOf(tool_performance_data'.tool_usage)
                   = TotalOf(tool_performance_data.tool_usage)
                       + Cardinality(Become("achieved")) + Cardinality(Become("failed"))
         ELSE tool_performance_data' = tool_performance_data]_vars

\* An Execute phase that attempted a goal whose tool call failed: the goal
\* is failed, one use and no success are counted.
C39_Witness ==
    /\ ph.pos = "raised" /\ ph.cycles = 1 /\ ph.attempts = <<1>>
    /\ current_goals[1].status = "failed"
    /\ te.outcome = "not_found"
    /\ TotalOf(tool_performance_data.tool_usage) = 1
    /\ TotalOf(tool_performance_data.tool_success) = 0

(***************************************************************************)
(* Properties of the reserved keys.                                        *)
(***************************************************************************)
\* C40: an execute_task call moves the counters of a reserved key only in
\* that key's own branch: each use of the direct-response key it counts is
\* counted as a success, and it counts no success for the parse and
\* unclear keys, whatever tool name the decision carries.
C40_ReservedKeysOwnBranch ==
    [][Executes =>
          /\ Count(tool_performance_data'.tool_success, DirectKey) - Success(DirectKey)
                = Count(tool_performance_data'.tool_usage, DirectKey) - Usage(DirectKey)
          /\ Count(tool_performance_data'.tool_success, ParseKey) = Success(ParseKey)
          /\ Count(tool_performance_data'.tool_success, UnclearKey) = Success(UnclearKey)]_vars

=============================================================================
